---- MODULE Spec2Model ----
(***************************************************************************)
(* FlowPaste editor (App.tsx, third revision in src/unnamed/part_001):     *)
(* the Fix/Polish streaming replacement engine, the one-level undo and the *)
(* toast, as a state machine over React state, refs and suspended          *)
(* runTextAction invocations.                                              *)
(*                                                                         *)
(* A string is a sequence of characters; a character is a TLA+ string.     *)
(* Characters outside ASCII are written by code point ("u201c").           *)
(* A nullable value is a sequence of length 0 (null) or 1 (the value).     *)
(***************************************************************************)
EXTENDS Integers, Sequences, FiniteSets, TLC

(* ------------------------------ bounds --------------------------------- *)

\* runTextAction invocations that start a session, per behaviour
MaxSessions == 2

\* content deltas read per session
MaxChunks == 2

\* keystrokes typed by the user per behaviour
MaxEdits == 1

\* the largest options.retries of a requestWithRetry invocation
MaxRetries == 2

\* transcribeAudio invocations per behaviour
MaxTranscriptions == 2

\* recordings the user asks for per behaviour
MaxRecordings == 2

\* pieces an argument of sanitizeModelText is made of
MaxPieces == 4

\* applications of sanitizeModelText to an argument and to its results
MaxPasses == 2

\* the largest max a clampRange call on its own is given
MaxClamp == 2

\* input events in the rich-text view per behaviour
MaxWysiwygInputs == 1

\* toasts shown in a behaviour
MaxToasts == 5

\* the time between two clock observations of the toast timer, in ms
TickMs == 400

\* the last value Date.now() takes
MaxClock == 5

\* articles in the list
MaxArticles == 3

\* lines in a response body
MaxLines == 3

\* options.timeoutMs of the calls whose time is followed, in ms
AttemptBudgetMs == 1600

(* ------------------------- strings (JS String) -------------------------- *)

Null == <<>>

Some(v) == <<v>>

\* JS truthiness of a `string | null`: null and '' are both falsy
Truthy(opt) == opt # Null /\ opt[1] # <<>>

\* String.prototype.slice(from, to) with 0 <= from, to (0-based, to exclusive)
Slice(s, from, to) ==
  LET f == IF from > Len(s) THEN Len(s) ELSE from
      t == IF to > Len(s) THEN Len(s) ELSE to
  IN IF f >= t THEN <<>> ELSE SubSeq(s, f + 1, t)

\* String.prototype.slice(from)
SliceFrom(s, from) == Slice(s, from, Len(s))

StartsWith(s, p) == Len(p) <= Len(s) /\ SubSeq(s, 1, Len(p)) = p

\* white space removed by String.prototype.trim
IsWhiteSpace(c) == c \in {" ", "\n", "\t", "\r", "u00a0", "ufeff"}

RECURSIVE TrimStart(_)
TrimStart(s) ==
  IF s # <<>> /\ IsWhiteSpace(Head(s)) THEN TrimStart(Tail(s)) ELSE s

RECURSIVE TrimEnd(_)
TrimEnd(s) ==
  IF s # <<>> /\ IsWhiteSpace(s[Len(s)]) THEN TrimEnd(SubSeq(s, 1, Len(s) - 1)) ELSE s

\* a trim that strips nothing: the guard would test !targetText
TrimNothing(s) == s

Trim(s) == TrimEnd(TrimStart(s))

\* the character class ["'“”] of the quote-stripping regex
IsQuote(c) == c \in {"\"", "'", "u201c", "u201d"}

RECURSIVE StripLeadingQuotes(_)
StripLeadingQuotes(s) ==
  IF s # <<>> /\ IsQuote(Head(s)) THEN StripLeadingQuotes(Tail(s)) ELSE s

RECURSIVE StripTrailingQuotes(_)
StripTrailingQuotes(s) ==
  IF s # <<>> /\ IsQuote(s[Len(s)])
  THEN StripTrailingQuotes(SubSeq(s, 1, Len(s) - 1))
  ELSE s

\* t.replace(/^["'“”]+|["'“”]+$/g, ''): the leading run, then the trailing run
StripQuotes(s) == StripTrailingQuotes(StripLeadingQuotes(s))

\* String.prototype.split('\n'): a sequence of lines (never empty)
RECURSIVE SplitLines(_)
SplitLines(s) ==
  IF \A i \in 1..Len(s) : s[i] # "\n"
  THEN <<s>>
  ELSE LET k == CHOOSE i \in 1..Len(s) :
                  s[i] = "\n" /\ \A j \in 1..(i - 1) : s[j] # "\n"
       IN <<SubSeq(s, 1, k - 1)>> \o SplitLines(SubSeq(s, k + 1, Len(s)))

\* Array.prototype.join('\n')
RECURSIVE JoinLines(_)
JoinLines(ls) ==
  IF ls = <<>> THEN <<>>
  ELSE IF Len(ls) = 1 THEN ls[1]
  ELSE ls[1] \o <<"\n">> \o JoinLines(Tail(ls))

\* explanation-section headers: 修正说明, 修改说明, 说明：, Note:, Explanation:,
\* Correction:, Remark:
BannedHeaders ==
  { <<"u4fee", "u6b63", "u8bf4", "u660e">>,
    <<"u4fee", "u6539", "u8bf4", "u660e">>,
    <<"u8bf4", "u660e", "uff1a">>,
    <<"N", "o", "t", "e", ":">>,
    <<"E", "x", "p", "l", "a", "n", "a", "t", "i", "o", "n", ":">>,
    <<"C", "o", "r", "r", "e", "c", "t", "i", "o", "n", ":">>,
    <<"R", "e", "m", "a", "r", "k", ":">> }

\* result-announcement preambles: 修正后的文本, 润色后的文本, 结果：, 基于搜索,
\* Corrected text:, Polished text:, Result:
Preambles ==
  { <<"u4fee", "u6b63", "u540e", "u7684", "u6587", "u672c">>,
    <<"u6da6", "u8272", "u540e", "u7684", "u6587", "u672c">>,
    <<"u7ed3", "u679c", "uff1a">>,
    <<"u57fa", "u4e8e", "u641c", "u7d22">>,
    <<"C", "o", "r", "r", "e", "c", "t", "e", "d", " ", "t", "e", "x", "t", ":">>,
    <<"P", "o", "l", "i", "s", "h", "e", "d", " ", "t", "e", "x", "t", ":">>,
    <<"R", "e", "s", "u", "l", "t", ":">> }

IsBannedHeader(l) == \E p \in BannedHeaders : StartsWith(l, p)

IsPreamble(l) == \E p \in Preambles : StartsWith(l, p)

\* KeepLines dropping a header line alone, not what follows it
RECURSIVE KeepLinesAfterHeader(_, _, _, _)
KeepLinesAfterHeader(lines, i, foundStart, inBannedSection) ==
  IF i > Len(lines) THEN <<>>
  ELSE LET line == lines[i]
           l == Trim(line)
       IN IF IsBannedHeader(l) THEN KeepLinesAfterHeader(lines, i + 1, foundStart, FALSE)
          ELSE IF ~foundStart /\ (IsPreamble(l) \/ l = <<>>)
               THEN KeepLinesAfterHeader(lines, i + 1, FALSE, FALSE)
          ELSE <<line>> \o KeepLinesAfterHeader(lines, i + 1, TRUE, FALSE)

\* the for-loop of sanitizeModelText over lines[i..], carrying foundStart and
\* inBannedSection; the value is resultLines
RECURSIVE KeepLines(_, _, _, _)
KeepLines(lines, i, foundStart, inBannedSection) ==
  IF i > Len(lines) THEN <<>>
  ELSE LET line == lines[i]
           l == Trim(line)
       IN IF IsBannedHeader(l) THEN KeepLines(lines, i + 1, foundStart, TRUE)
          ELSE IF inBannedSection THEN KeepLines(lines, i + 1, foundStart, TRUE)
          ELSE IF ~foundStart /\ (IsPreamble(l) \/ l = <<>>)
               THEN KeepLines(lines, i + 1, FALSE, FALSE)
          ELSE <<line>> \o KeepLines(lines, i + 1, TRUE, FALSE)

sanitizeModelText(raw) ==
  LET t == StripQuotes(Trim(raw))
  IN Trim(JoinLines(KeepLines(SplitLines(t), 1, FALSE, FALSE)))

(* ------------------------------ clampRange ------------------------------ *)

Min(a, b) == IF a < b THEN a ELSE b

Max(a, b) == IF a > b THEN a ELSE b

\* clampRange returning the clamped start and end as they come, unordered
clampRangeInOrderGiven(start, end, max) ==
  << Max(0, Min(start, max)), Max(0, Min(end, max)) >>

clampRange(start, end, max) ==
  LET safeStart == Max(0, Min(start, max))
      safeEnd == Max(0, Min(end, max))
  IN <<Min(safeStart, safeEnd), Max(safeStart, safeEnd)>>

(* ------------------------------- inputs --------------------------------- *)

\* the content of the article loaded from localStorage at mount
InitTexts == { <<>>, <<"a", "b", "c">> }

\* ranges the user selects in the textarea (where the text is long enough)
SelectableRanges == { <<0, 0>>, <<1, 2>> }

\* characters the user types
TypedChars == { "d" }

\* content deltas (choices[0].delta.content) the model streams
Deltas == { <<"X">>, <<"\"">> }

ActionTypes == { "fix", "polish" }

LONG_TEXT_THRESHOLD == 8000

(* -------------------------------- state --------------------------------- *)

VARIABLES
  text,               \* useState text: the buffer
  selection,          \* useState selection {start, end}
  domSel,             \* the textarea's selectionStart / selectionEnd
  undoSnapshot,       \* useState undoSnapshot: string | null
  undoSnapshotRef,    \* useRef mirror of undoSnapshot
  actionState,        \* useState 'idle' | 'processing'
  chatAbortRef,       \* useRef: Some(session whose AbortController it holds) or Null
  cancelledByUserRef, \* useRef boolean
  toast,              \* useToast: Toast | null
  keyClosure,         \* the render whose runTextAction the keydown listener holds
  sessions,           \* the runTextAction invocations past their guards
  edits,              \* keystrokes typed so far
  confirmAsked,       \* whether the last runTextAction invocation called window.confirm
  call,               \* a requestWithRetry invocation on its own: its options and locals
  raw,                \* an argument of sanitizeModelText
  sanitized,          \* Null, or the result of the last application to it
  passes,             \* how often sanitizeModelText was applied
  recordingState,     \* useState 'idle' | 'recording' | 'transcribing' | 'error'
  transcribeAbortRef, \* useRef: Some(transcription whose controller it holds) or Null
  lastAudioBlobRef,   \* useRef: whether a recorded blob is kept
  micPending,         \* handleStartRecording is suspended in await getUserMedia
  recorder,           \* recorderRef's MediaRecorder: none, recording, stopping
  trs,                \* the transcribeAudio invocations
  recordings,         \* recordings asked for so far
  clampArgs,          \* the arguments of a clampRange call on its own
  clampResult,        \* Null, or the pair that call returned
  wysDom,             \* the content of the rich-text view (wysiwygRef.current)
  wysSel,             \* window.getSelection(): none, outside the view, or a range in it
  lastWysiwygRangeRef,      \* useRef: Null or the range last captured in the view
  suppressWysiwygInputRef,  \* useRef boolean
  lastSyncedMdRef,    \* useRef: the markdown the view was last synchronised with
  micClosure,         \* Null, or what the suspended handleStartRecording closes over
  wysRead,            \* history: the last call of readWysiwygSelectionRange
  wysInputs,          \* input events so far
  cursorAtStart,      \* history: the selection read when the last recording started
  toastSeq,           \* the toast objects created so far (the effect depends on [toast])
  toastTimers,        \* the timeouts armed by useToast's effect and not cleared
  toastGone,          \* history: how the last toast went away: none, timer, closed
  articles,           \* useState articles: Article[]
  currentArticleId,   \* useState currentArticleId ('' is 0)
  now,                \* Date.now()
  mounted,            \* the effects of the first render have run
  sse                 \* the read loop of runTextAction on its own: body, buffer, result

\* sanitizeModelText on its own
sanVars == << raw, sanitized, passes >>

\* clampRange on its own
clampVars == << clampArgs, clampResult >>

\* the rich-text view
wysVars == << wysDom, wysSel, lastWysiwygRangeRef, suppressWysiwygInputRef,
             lastSyncedMdRef, micClosure, wysRead, wysInputs >>

\* useToast's timer
toastVars == << toastSeq, toastTimers, toastGone >>

\* the article list of the sidebar
articleVars == << articles, currentArticleId, now, mounted >>

\* the toast timer and the sidebar
pageVars == << toastVars, articleVars, sse >>

\* the functions applied on their own, the rich-text view (not mounted in the
\* markdown view), the toast timer and the sidebar
fnVars == << sanVars, clampVars, wysVars, cursorAtStart, pageVars >>

\* the recorder and the transcriptions
recVars == << recordingState, transcribeAbortRef, lastAudioBlobRef, micPending,
             recorder, trs, recordings >>

\* the state outside the editor's buffer, undo, toast and Fix/Polish sessions
auxVars == << call, fnVars, recVars >>

vars == << text, selection, domSel, undoSnapshot, undoSnapshotRef, actionState,
           chatAbortRef, cancelledByUserRef, toast, keyClosure,
           sessions, edits, confirmAsked, auxVars >>

SessionIds == 1..MaxSessions

\* a runTextAction invocation: its locals and where it is suspended
NoSession ==
  [ pc |-> "unused",            \* unused, requesting (await fetch), streaming (await
                                \* reader.read), aborted (rejection queued), done
    currentSnapshot |-> <<>>,   \* const currentSnapshot = text
    selStart |-> 0,
    selEnd |-> 0,
    hasSelection |-> FALSE,
    undoSnapshot |-> Null,      \* the undoSnapshot this invocation's closure sees
    accumulatedContent |-> <<>>,
    chunks |-> 0,
    outcome |-> "none",         \* none, committed, cancelled, failed
    invokedOn |-> <<>>,         \* history: the buffer when the invocation was made
    liveSel |-> [start |-> 0, end |-> 0],   \* history: the live selection then
    article |-> 0 ]                         \* history: currentArticleId then

\* an invocation that has its outcome but is left in the read loop
EndedStillStreaming(outcome) == [NoSession EXCEPT !.pc = "streaming", !.outcome = outcome]

\* an invocation that has returned: its locals are gone
Ended(outcome) == [NoSession EXCEPT !.pc = "done", !.outcome = outcome]

\* the invocation s after its return; the history of its article stays
EndedOn(s, outcome) == [Ended(outcome) EXCEPT !.article = s.article]

\* what a render's runTextAction closes over
RenderClosure ==
  [ text |-> text, actionState |-> actionState, undoSnapshot |-> undoSnapshot ]

Collapsed(n) == [start |-> n, end |-> n]

\* <textarea value={text}>: writing a different value moves the caret to its end
DomAfterWrite(next) == IF next = text THEN domSel ELSE Collapsed(Len(next))

\* showToast; action is the snapshot of an undo link, retry tells a retry link, msg
\* tells the message of an error toast of runTextAction
MkToast(kind, action) ==
  Some([kind |-> kind, action |-> action, retry |-> FALSE, msg |-> ""])

\* showToast(message, 'error') of runTextAction's catch: message is t.ui.toast.fail
\* ("fail", thrown on an empty result) or the message of the error caught ("error")
MkErrorToast(msg) ==
  Some([kind |-> "error", action |-> Null, retry |-> FALSE, msg |-> msg])

\* showToast(message, 'error', { label: retry, onClick: () => transcribeAudio(blob) })
MkRetryToast == Some([kind |-> "error", action |-> Null, retry |-> TRUE, msg |-> ""])

\* lastCursorRef.current: the effect on [selection] keeps it equal to selection
lastCursorRef == selection

Pending(i) == sessions[i].pc \in {"requesting", "streaming"}

\* an event handler running while the rejection of an aborted await is still queued
AnyInterleaving == TRUE

\* a rejected await resumes in a microtask, before any other event is handled
NoMicrotask == \A i \in SessionIds : sessions[i].pc # "aborted"

\* no requestWithRetry invocation yet
NoCall ==
  [ pc |-> "idle",        \* idle, inflight (await request), backoff (await delay),
                          \* returned, thrown
    retries |-> 0,        \* options.retries
    hasUser |-> FALSE,    \* options.userController is given
    aborted |-> FALSE,    \* options.userController.signal.aborted
    attempt |-> 0,
    backoff |-> 800,
    timedOut |-> FALSE,   \* of the current loop iteration
    timer |-> FALSE,      \* the iteration's timeout timer is armed
    listener |-> FALSE,   \* onUserAbort is registered on the user signal
    issued |-> 0,         \* history: calls of request() so far
    waited |-> <<>>,      \* history: the delays waited so far
    res |-> 0,            \* the status of the response returned, 0 if none
    err |-> "none",       \* the error thrown
    timeoutMs |-> AttemptBudgetMs,  \* options.timeoutMs
    timerLeft |-> 0,      \* what is left on the iteration's timeout timer
    inAttempt |-> 0,      \* history: the time since the current attempt started
    inDelay |-> 0,        \* history: the time spent in the current backoff delay
    spent |-> 0 ]         \* history: the time since the call was made

TrIds == 1..MaxTranscriptions

\* a transcribeAudio invocation: where it is suspended and its requestWithRetry
NoTranscription ==
  [ pc |-> "unused",      \* unused, request (await requestWithRetry), body (await
                          \* res.json()), errorBody (await parseError(res)), done
    rq |-> NoCall,
    outcome |-> "none" ]  \* none, inserted, cancelled, failed

\* sanitizeModelText is not applied
SanitizeIdle ==
  /\ raw = <<>>
  /\ sanitized = Null
  /\ passes = 0

\* clampRange is not applied on its own
ClampIdle ==
  /\ clampArgs = [start |-> 0, end |-> 0, max |-> 0]
  /\ clampResult = Null

\* no call of readWysiwygSelectionRange yet
NoWysRead ==
  [ exit |-> "none",       \* none, noRange, collision, found, notFound, reversed
    inserted |-> FALSE,    \* the markers were inserted
    resolved |-> FALSE,    \* offsets were returned
    collided |-> FALSE,    \* the buffer held the text of a marker when it was called
    domKept |-> TRUE,      \* the view's content after the call is that before it
    textKept |-> TRUE,     \* the buffer after the call is that before it
    selKept |-> TRUE ]     \* the live selection after the call is that before it

NoLiveSelection == [where |-> "none", start |-> 0, end |-> 0]

\* the markdown view: the rich-text view is not mounted
WysIdle ==
  /\ wysDom = <<>>
  /\ wysSel = NoLiveSelection
  /\ lastWysiwygRangeRef = Null
  /\ suppressWysiwygInputRef = FALSE
  /\ lastSyncedMdRef = <<>>
  /\ micClosure = Null
  /\ wysRead = NoWysRead
  /\ wysInputs = 0

\* the recorder after mount
RecIdle ==
  /\ recordingState = "idle"
  /\ transcribeAbortRef = Null
  /\ lastAudioBlobRef = FALSE
  /\ micPending = FALSE
  /\ recorder = "none"
  /\ trs = [t \in TrIds |-> NoTranscription]
  /\ recordings = 0
  /\ cursorAtStart = Collapsed(0)

\* no toast was shown and no timer is armed
ToastIdle ==
  /\ toastSeq = 0
  /\ toastTimers = {}
  /\ toastGone = "none"

\* the sidebar is left alone
ArticleIdle ==
  /\ articles = <<>>
  /\ currentArticleId = 0
  /\ now = 0
  /\ mounted = FALSE

\* no response stream is read
NoStream ==
  [ pc |-> "idle",               \* idle, reading (await reader.read()), closed
    body |-> <<>>,               \* the response body
    rest |-> <<>>,               \* what the reader has not delivered yet
    buffer |-> <<>>,             \* let buffer = ''
    accumulatedContent |-> <<>>,
    doneSeen |-> FALSE ]         \* history: the loop has met a data: [DONE] line

PageIdle == ToastIdle /\ ArticleIdle /\ sse = NoStream

\* nothing outside the editor is in use
AuxIdle ==
  /\ call = NoCall
  /\ SanitizeIdle
  /\ ClampIdle
  /\ WysIdle
  /\ RecIdle
  /\ PageIdle

\* the editor of an empty article, left alone
EditorIdle ==
  /\ text = <<>>
  /\ selection = Collapsed(0)
  /\ domSel = Collapsed(0)
  /\ undoSnapshot = Null
  /\ undoSnapshotRef = Null
  /\ actionState = "idle"
  /\ chatAbortRef = Null
  /\ cancelledByUserRef = FALSE
  /\ toast = Null
  /\ keyClosure = [text |-> <<>>, actionState |-> "idle", undoSnapshot |-> Null]
  /\ sessions = [i \in SessionIds |-> NoSession]
  /\ edits = 0
  /\ confirmAsked = FALSE

editorVars == << text, selection, domSel, undoSnapshot, undoSnapshotRef, actionState,
                chatAbortRef, cancelledByUserRef, toast, keyClosure, sessions, edits,
                confirmAsked >>

\* the editor's own state after mount, with the article content t
EditorAt(t) ==
  /\ text = t
  /\ selection = Collapsed(0)
  /\ domSel = Collapsed(0)
  /\ undoSnapshot = Null
  /\ undoSnapshotRef = Null
  /\ actionState = "idle"
  /\ chatAbortRef = Null
  /\ cancelledByUserRef = FALSE
  /\ toast = Null
  /\ keyClosure = [text |-> t, actionState |-> "idle", undoSnapshot |-> Null]
  /\ sessions = [i \in SessionIds |-> NoSession]
  /\ edits = 0
  /\ confirmAsked = FALSE

\* the editor after mount, with the article content t
InitAt(t) == AuxIdle /\ EditorAt(t)

Init == \E t \in InitTexts : InitAt(t)

(* ----------------------------- user editing ----------------------------- *)

\* the user selects a range in the textarea (onSelect / onKeyUp / onMouseUp)
SelectRange(s, e) ==
  /\ NoMicrotask
  /\ domSel # [start |-> s, end |-> e]
  /\ domSel' = [start |-> s, end |-> e]
  /\ selection' = [start |-> s, end |-> e]
  /\ UNCHANGED << text, undoSnapshot, undoSnapshotRef, actionState,
                  chatAbortRef, cancelledByUserRef, toast, keyClosure, sessions,
                  edits, confirmAsked, auxVars >>

\* the user types a character over the live selection (onChange, then onSelect)
TypeChar(c) ==
  /\ NoMicrotask
  /\ edits < MaxEdits
  /\ text' = Slice(text, 0, domSel.start) \o <<c>> \o SliceFrom(text, domSel.end)
  /\ domSel' = Collapsed(domSel.start + 1)
  /\ selection' = Collapsed(domSel.start + 1)
  /\ edits' = edits + 1
  /\ UNCHANGED << undoSnapshot, undoSnapshotRef, actionState,
                  chatAbortRef, cancelledByUserRef, toast, keyClosure, sessions, confirmAsked, auxVars >>

(* ---------------------------- runTextAction ----------------------------- *)

\* Rebuild with the range re-read from the live selection at the time of the write
RebuildAtLiveSelection(s, content) ==
  LET r == clampRange(domSel.start, domSel.end, Len(s.currentSnapshot))
  IN IF r[1] # r[2]
     THEN Slice(s.currentSnapshot, 0, r[1]) \o content \o SliceFrom(s.currentSnapshot, r[2])
     ELSE content

\* setText's updater for a chunk and for the commit: rebuilt from the frozen
\* snapshot and range
Rebuild(s, content) ==
  IF s.hasSelection
  THEN Slice(s.currentSnapshot, 0, s.selStart) \o content
         \o SliceFrom(s.currentSnapshot, s.selEnd)
  ELSE content

\* if (!hasSelection && text.length > LONG_TEXT_THRESHOLD): window.confirm is called
NeedsConfirm(c, hasSelection) ==
  ~hasSelection /\ Len(c.text) > LONG_TEXT_THRESHOLD

\* if (actionState === 'processing') { ...; return }
CancelBranch ==
  /\ confirmAsked' = FALSE
  /\ cancelledByUserRef' = TRUE
  /\ sessions' = [i \in SessionIds |->
                    IF chatAbortRef = Some(i) /\ Pending(i)
                    THEN [sessions[i] EXCEPT !.pc = "aborted"]
                    ELSE sessions[i]]
  /\ actionState' = "idle"
  /\ toast' = MkToast("info", Null)
  /\ UNCHANGED << text, selection, domSel, undoSnapshot, undoSnapshotRef,
                  chatAbortRef, keyClosure, edits, auxVars >>

\* if (!targetText.trim()) { showToast(inputFirst); return }
EmptyTargetBranch ==
  /\ confirmAsked' = FALSE
  /\ toast' = MkToast("info", Null)
  /\ UNCHANGED << text, selection, domSel, undoSnapshot, undoSnapshotRef, actionState,
                  chatAbortRef, cancelledByUserRef, keyClosure,
                  sessions, edits, auxVars >>

\* the long-text gate declined: if (!proceed) return
DeclinedBranch ==
  /\ confirmAsked' = TRUE
  /\ UNCHANGED << text, selection, domSel, undoSnapshot, undoSnapshotRef, actionState,
                  chatAbortRef, cancelledByUserRef, toast, keyClosure,
                  sessions, edits, auxVars >>

\* from `const controller = new AbortController()` to the suspended `await fetch`
StartBranch(c, action, i, range) ==
  /\ confirmAsked' = NeedsConfirm(c, range[1] # range[2])
  /\ cancelledByUserRef' = FALSE
  /\ chatAbortRef' = Some(i)
  /\ undoSnapshot' = Some(c.text)
  /\ undoSnapshotRef' = Some(c.text)
  /\ actionState' = "processing"
  /\ toast' = MkToast("info", Null)
  /\ sessions' = [sessions EXCEPT ![i] =
       [ pc |-> "requesting",
         currentSnapshot |-> c.text,
         selStart |-> range[1],
         selEnd |-> range[2],
         hasSelection |-> range[1] # range[2],
         undoSnapshot |-> c.undoSnapshot,
         accumulatedContent |-> <<>>,
         chunks |-> 0,
         outcome |-> "none",
         invokedOn |-> text,
         liveSel |-> domSel,
         article |-> currentArticleId ]]
  /\ UNCHANGED << text, selection, domSel, keyClosure, edits, auxVars >>

\* runTextAction as created by the render c, invoked now; the live selection is read
\* from the textarea (readSelection in the markdown view)
runTextAction(c, action) ==
  IF c.actionState = "processing" THEN CancelBranch
  ELSE
    LET liveSel == domSel
        range == clampRange(liveSel.start, liveSel.end, Len(c.text))
        hasSelection == range[1] # range[2]
        selectedText == IF hasSelection THEN Slice(c.text, range[1], range[2]) ELSE <<>>
        targetText == IF selectedText # <<>> THEN selectedText ELSE c.text
    IN IF Trim(targetText) = <<>> THEN EmptyTargetBranch
       ELSE \E proceed \in BOOLEAN :
              IF NeedsConfirm(c, hasSelection) /\ ~proceed
              THEN DeclinedBranch
              ELSE \E i \in SessionIds :
                     /\ sessions[i].pc = "unused"
                     /\ \A j \in 1..(i - 1) : sessions[j].pc # "unused"
                     /\ StartBranch(c, action, i, range)

\* the Fix / Polish button: onClick of the current render
ClickAction(action) ==
  /\ NoMicrotask
  /\ runTextAction(RenderClosure, action)

\* Ctrl/Cmd+Shift+F / P: the keydown listener registered by the effect with
\* dependencies [isMac, recordingState]
ShortcutAction(action) ==
  /\ NoMicrotask
  /\ runTextAction(keyClosure, action)

\* catch (error) { ... } finally { ... } of session i, the error caught
\* carrying the message msg
CatchFinally(i, msg) ==
  LET s == sessions[i]
      userCancelled == cancelledByUserRef
      next == IF Truthy(s.undoSnapshot) THEN s.undoSnapshot[1] ELSE text
  IN /\ toast' = IF userCancelled
                 THEN MkToast("info", Null)
                 ELSE MkErrorToast(msg)
     /\ text' = next
     /\ domSel' = DomAfterWrite(next)
     /\ sessions' = [sessions EXCEPT ![i] =
                       EndedOn(sessions[i],
                               IF userCancelled THEN "cancelled" ELSE "failed")]
     /\ chatAbortRef' = Null
     /\ cancelledByUserRef' = FALSE
     /\ actionState' = "idle"
     /\ UNCHANGED << selection, undoSnapshot, undoSnapshotRef, keyClosure, edits, confirmAsked, auxVars >>

\* the aborted await rejects: the catch runs with the rejection
AbortRejects(i) ==
  /\ sessions[i].pc = "aborted"
  /\ CatchFinally(i, "error")

\* fetch rejects (network error) or the response is not ok (401, 500, ...)
RequestFails(i) ==
  /\ NoMicrotask
  /\ sessions[i].pc = "requesting"
  /\ CatchFinally(i, "error")

\* the response is ok and its reader is taken: the loop awaits the first read
ResponseOk(i) ==
  /\ NoMicrotask
  /\ sessions[i].pc = "requesting"
  /\ sessions' = [sessions EXCEPT ![i].pc = "streaming"]
  /\ UNCHANGED << text, selection, domSel, undoSnapshot, undoSnapshotRef, actionState,
                  chatAbortRef, cancelledByUserRef, toast, keyClosure,
                  edits, confirmAsked, auxVars >>

\* a read delivers a data line with a non-empty content delta
ReadDelta(i, delta) ==
  /\ NoMicrotask
  /\ sessions[i].pc = "streaming"
  /\ sessions[i].chunks < MaxChunks
  /\ LET acc == sessions[i].accumulatedContent \o delta
         next == Rebuild(sessions[i], acc)
     IN /\ sessions' = [sessions EXCEPT ![i].accumulatedContent = acc,
                                        ![i].chunks = @ + 1]
        /\ text' = next
        /\ domSel' = DomAfterWrite(next)
  /\ UNCHANGED << selection, undoSnapshot, undoSnapshotRef, actionState,
                  chatAbortRef, cancelledByUserRef, toast, keyClosure, edits, confirmAsked, auxVars >>

\* a read rejects (the connection drops mid-stream)
ReadFails(i) ==
  /\ NoMicrotask
  /\ sessions[i].pc = "streaming"
  /\ CatchFinally(i, "error")

\* Commit writing the accumulated text as streamed, not the sanitized text
CommitUnsanitized(i, finalContent) ==
  LET s == sessions[i]
      next == Rebuild(s, s.accumulatedContent)
      newEnd == s.selStart + Len(s.accumulatedContent)
  IN /\ text' = next
     /\ domSel' = DomAfterWrite(next)
     /\ selection' = IF s.hasSelection THEN Collapsed(newEnd) ELSE selection
     /\ toast' = MkToast("success", Some(s.currentSnapshot))
     /\ sessions' = [sessions EXCEPT ![i] = EndedOn(sessions[i], "committed")]
     /\ chatAbortRef' = Null
     /\ cancelledByUserRef' = FALSE
     /\ actionState' = "idle"
     /\ UNCHANGED << undoSnapshot, undoSnapshotRef, keyClosure, edits, confirmAsked, auxVars >>

\* the commit: setText, setSelection, the success toast with its undo action;
\* then the finally block
Commit(i, finalContent) ==
  LET s == sessions[i]
      next == Rebuild(s, finalContent)
      newEnd == s.selStart + Len(finalContent)
  IN /\ text' = next
     /\ domSel' = DomAfterWrite(next)
     /\ selection' = IF s.hasSelection THEN Collapsed(newEnd) ELSE selection
     /\ toast' = MkToast("success", Some(s.currentSnapshot))
     /\ sessions' = [sessions EXCEPT ![i] = EndedOn(sessions[i], "committed")]
     /\ chatAbortRef' = Null
     /\ cancelledByUserRef' = FALSE
     /\ actionState' = "idle"
     /\ UNCHANGED << undoSnapshot, undoSnapshotRef, keyClosure, edits, confirmAsked, auxVars >>

\* a read reports done: sanitize, then throw on an empty result or commit
StreamEnds(i) ==
  /\ NoMicrotask
  /\ sessions[i].pc = "streaming"
  /\ LET finalContent == sanitizeModelText(sessions[i].accumulatedContent)
     IN IF finalContent = <<>> \/ Trim(finalContent) = <<>>
        THEN CatchFinally(i, "fail")
        ELSE Commit(i, finalContent)

(* --------------------------------- undo --------------------------------- *)

applyUndoSnapshot(snapshot) ==
  IF ~Truthy(snapshot)
  THEN UNCHANGED vars
  ELSE /\ text' = snapshot[1]
       /\ domSel' = DomAfterWrite(snapshot[1])
       /\ undoSnapshot' = Null
       /\ undoSnapshotRef' = Null
       /\ toast' = MkToast("info", Null)
       /\ UNCHANGED << selection, actionState, chatAbortRef,
                       cancelledByUserRef, keyClosure, sessions, edits, confirmAsked, auxVars >>

\* the Undo button (disabled={!undoSnapshot}); a click on it while disabled does nothing
handleUndo ==
  /\ NoMicrotask
  /\ applyUndoSnapshot(IF undoSnapshot = Null THEN Null ELSE undoSnapshotRef)

\* the undo link of the success toast: onClick: () => applyUndoSnapshot(currentSnapshot)
ToastUndo ==
  /\ NoMicrotask
  /\ toast # Null
  /\ toast[1].action # Null
  /\ applyUndoSnapshot(toast[1].action)

(* ----------------------------- specification ---------------------------- *)

Next ==
  \/ \E r \in SelectableRanges : r[2] <= Len(text) /\ SelectRange(r[1], r[2])
  \/ \E c \in TypedChars : TypeChar(c)
  \/ \E a \in ActionTypes : ClickAction(a)
  \/ \E a \in ActionTypes : ShortcutAction(a)
  \/ \E i \in SessionIds : AbortRejects(i)
  \/ \E i \in SessionIds : RequestFails(i)
  \/ \E i \in SessionIds : ResponseOk(i)
  \/ \E i \in SessionIds : \E d \in Deltas : ReadDelta(i, d)
  \/ \E i \in SessionIds : ReadFails(i)
  \/ \E i \in SessionIds : StreamEnds(i)
  \/ handleUndo
  \/ ToastUndo

Spec == Init /\ [][Next]_vars


(* --------------------------- requestWithRetry --------------------------- *)

\* options.retries of the calls made
RetryOptions == 0..MaxRetries

\* HTTP status of a response the request resolves with
Statuses == { 200, 401, 403, 422, 500 }

\* what a request rejects with on its own: a network error (TypeError) or another error
RejectKinds == { "network", "other" }

\* isNetworkError(error)
isNetworkError(kind) == kind = "network"

\* StartAttempt whose timer gets what the earlier attempts and delays left of timeoutMs
StartAttemptCumulative(f) ==
  IF f.attempt <= f.retries
  THEN [f EXCEPT !.pc = "inflight",
                 !.timedOut = FALSE,
                 !.timer = TRUE,
                 !.timerLeft = Max(f.timeoutMs - f.spent, 0),
                 !.inAttempt = 0,
                 !.inDelay = 0,
                 !.listener = f.hasUser,
                 !.issued = @ + 1]
  ELSE [f EXCEPT !.pc = "thrown", !.err = "unreachable"]

\* one loop iteration up to `await request(attemptController.signal)`: a fresh attempt
\* controller, timedOut = false, the timer armed, onUserAbort registered
StartAttempt(f) ==
  IF f.attempt <= f.retries
  THEN [f EXCEPT !.pc = "inflight",
                 !.timedOut = FALSE,
                 !.timer = TRUE,
                 !.timerLeft = f.timeoutMs,
                 !.inAttempt = 0,
                 !.inDelay = 0,
                 !.listener = f.hasUser,
                 !.issued = @ + 1]
  ELSE [f EXCEPT !.pc = "thrown", !.err = "unreachable"]

\* requestWithRetry(request, {userController, timeoutMs, retries}) up to its first await
NewCall(retries, hasUser) ==
  StartAttempt([NoCall EXCEPT !.retries = retries, !.hasUser = hasUser])

\* Catches that retries a user abort like a network error
CatchesRetryingAbort(f, kind) ==
  LET g == [f EXCEPT !.timer = FALSE, !.listener = FALSE]
      retryable == f.timedOut \/ isNetworkError(kind) \/ kind = "abort"
  IN IF retryable /\ f.attempt < f.retries
     THEN [g EXCEPT !.pc = "backoff", !.waited = Append(@, f.backoff)]
     ELSE IF f.timedOut THEN [g EXCEPT !.pc = "thrown", !.err = "timeout"]
     ELSE [g EXCEPT !.pc = "thrown", !.err = kind]

\* Catches that goes to a backoff delay after the last attempt as well
CatchesRetryingLast(f, kind) ==
  LET g == [f EXCEPT !.timer = FALSE, !.listener = FALSE]
      cancelledByUser == f.hasUser /\ f.aborted /\ ~f.timedOut
      retryable == f.timedOut \/ isNetworkError(kind)
  IN IF cancelledByUser THEN [g EXCEPT !.pc = "thrown", !.err = kind]
     ELSE IF retryable /\ f.attempt <= f.retries
          THEN [g EXCEPT !.pc = "backoff", !.waited = Append(@, f.backoff)]
     ELSE IF f.timedOut THEN [g EXCEPT !.pc = "thrown", !.err = "timeout"]
     ELSE [g EXCEPT !.pc = "thrown", !.err = kind]

\* catch (error), with error of the given kind ("abort", "network", "other")
Catches(f, kind) ==
  LET g == [f EXCEPT !.timer = FALSE, !.listener = FALSE]
      cancelledByUser == f.hasUser /\ f.aborted /\ ~f.timedOut
      retryable == f.timedOut \/ isNetworkError(kind)
  IN IF cancelledByUser THEN [g EXCEPT !.pc = "thrown", !.err = kind]
     ELSE IF retryable /\ f.attempt < f.retries
          THEN [g EXCEPT !.pc = "backoff", !.waited = Append(@, f.backoff)]
     ELSE IF f.timedOut THEN [g EXCEPT !.pc = "thrown", !.err = "timeout"]
     ELSE [g EXCEPT !.pc = "thrown", !.err = kind]

\* Returns that treats a response that is not ok like a network error
ReturnsOkOnly(f, status) ==
  IF status = 200
  THEN [f EXCEPT !.pc = "returned", !.timer = FALSE, !.listener = FALSE, !.res = status]
  ELSE Catches(f, "network")

\* try: the request resolved with a response
Returns(f, status) ==
  [f EXCEPT !.pc = "returned", !.timer = FALSE, !.listener = FALSE, !.res = status]

\* the timer fires: timedOut = true, attemptController.abort(); the request rejects
\* and the catch runs before any other event
TimedOut(f) == Catches([f EXCEPT !.timedOut = TRUE], "abort")

\* userController.abort(): onUserAbort, if registered, aborts the attempt, whose
\* request rejects into the catch; otherwise only the signal changes
UserAborted(f) ==
  LET g == [f EXCEPT !.aborted = TRUE]
  IN IF f.pc = "inflight" /\ f.listener THEN Catches(g, "abort") ELSE g

\* AfterDelay with a constant backoff
AfterDelayConstant(f) ==
  StartAttempt([f EXCEPT !.attempt = @ + 1])

\* await delay(backoff) is over: backoff *= 2; attempt += 1; continue
AfterDelay(f) ==
  StartAttempt([f EXCEPT !.backoff = @ * 2, !.attempt = @ + 1])

\* the actions of a requestWithRetry invocation on its own

CallRequest(retries, hasUser) ==
  /\ call.pc = "idle"
  /\ call' = NewCall(retries, hasUser)
  /\ UNCHANGED << editorVars, fnVars, recVars >>

CallResponse(status) ==
  /\ call.pc = "inflight"
  /\ call' = Returns(call, status)
  /\ UNCHANGED << editorVars, fnVars, recVars >>

CallRejects(kind) ==
  /\ call.pc = "inflight"
  /\ call' = Catches(call, kind)
  /\ UNCHANGED << editorVars, fnVars, recVars >>

CallTimerFires ==
  /\ call.pc = "inflight"
  /\ call.timer
  /\ call' = TimedOut(call)
  /\ UNCHANGED << editorVars, fnVars, recVars >>

CallUserAborts ==
  /\ call.pc # "idle"
  /\ call.hasUser
  /\ ~call.aborted
  /\ call' = UserAborted(call)
  /\ UNCHANGED << editorVars, fnVars, recVars >>

CallDelayElapses ==
  /\ call.pc = "backoff"
  /\ call' = AfterDelay(call)
  /\ UNCHANGED << editorVars, fnVars, recVars >>

RetryInit == EditorIdle /\ AuxIdle

\* time passes while an attempt is in flight or a backoff delay runs
CallTick ==
  /\ \/ call.pc = "inflight" /\ call.timerLeft > 0
     \/ call.pc = "backoff" /\ call.inDelay < call.backoff
  /\ call' = IF call.pc = "inflight"
             THEN [call EXCEPT !.timerLeft = Max(@ - TickMs, 0),
                               !.inAttempt = @ + Min(TickMs, call.timerLeft),
                               !.spent = @ + Min(TickMs, call.timerLeft)]
             ELSE [call EXCEPT !.inDelay = @ + Min(TickMs, call.backoff - call.inDelay),
                               !.spent = @ + Min(TickMs, call.backoff - call.inDelay)]
  /\ UNCHANGED << editorVars, fnVars, recVars >>

\* the timeout timer runs out
CallTimeout ==
  /\ call.timerLeft = 0
  /\ CallTimerFires

\* delay(backoff) resolves
CallBackoffOver ==
  /\ call.inDelay = call.backoff
  /\ CallDelayElapses

\* requestWithRetry with the time its timers and delays take
RetryTimeNext ==
  \/ \E r \in RetryOptions : \E u \in BOOLEAN : CallRequest(r, u)
  \/ \E st \in Statuses : CallResponse(st)
  \/ \E k \in RejectKinds : CallRejects(k)
  \/ CallUserAborts
  \/ CallTick
  \/ CallTimeout
  \/ CallBackoffOver

RetryTimeSpec == RetryInit /\ [][RetryTimeNext]_vars

RetryNext ==
  \/ \E r \in RetryOptions : \E u \in BOOLEAN : CallRequest(r, u)
  \/ \E st \in Statuses : CallResponse(st)
  \/ \E k \in RejectKinds : CallRejects(k)
  \/ CallTimerFires
  \/ CallUserAborts
  \/ CallDelayElapses

RetrySpec == RetryInit /\ [][RetryNext]_vars

(* ---------------------- recording and transcription --------------------- *)

\* data.text || data.transcript of a transcription response; '' if there is none
Transcripts == { <<>>, <<"T">> }

\* the keydown effect (dependencies [isMac, recordingState]) registers the listener
\* of the current render again when recordingState changes
KeyClosureAfter(rs, tx) ==
  IF rs # recordingState
  THEN [text |-> tx, actionState |-> actionState, undoSnapshot |-> undoSnapshot]
  ELSE keyClosure

\* the record button while idle or in error: handleStartRecording up to
\* await getUserMedia
StartRecording ==
  /\ NoMicrotask
  /\ recordingState \in {"idle", "error"}
  /\ ~micPending
  /\ recorder = "none"
  /\ recordings < MaxRecordings
  /\ micPending' = TRUE
  /\ recordings' = recordings + 1
  /\ UNCHANGED << editorVars, call, fnVars, recordingState, transcribeAbortRef,
                  lastAudioBlobRef, recorder, trs >>

\* getUserMedia resolves: the recorder is created and started
MicGranted ==
  /\ NoMicrotask
  /\ micPending
  /\ micPending' = FALSE
  /\ selection' = domSel
  /\ cursorAtStart' = domSel
  /\ recorder' = "recording"
  /\ recordingState' = "recording"
  /\ toast' = MkToast("info", Null)
  /\ keyClosure' = KeyClosureAfter("recording", text)
  /\ UNCHANGED << text, domSel, undoSnapshot, undoSnapshotRef, actionState, chatAbortRef,
                  cancelledByUserRef, sessions, edits, confirmAsked, call, pageVars, sanVars,
                  clampVars, wysVars,
                  transcribeAbortRef, lastAudioBlobRef, trs, recordings >>

\* getUserMedia rejects: catch { showToast(micPermission); setRecordingState('error') }
MicDenied ==
  /\ NoMicrotask
  /\ micPending
  /\ micPending' = FALSE
  /\ recordingState' = "error"
  /\ toast' = MkToast("error", Null)
  /\ keyClosure' = KeyClosureAfter("error", text)
  /\ UNCHANGED << text, selection, domSel, undoSnapshot, undoSnapshotRef, actionState,
                  chatAbortRef, cancelledByUserRef, sessions, edits, confirmAsked, call, fnVars,
                  transcribeAbortRef, lastAudioBlobRef, recorder, trs, recordings >>

\* recorder.onerror; the recorder then stops on its own
RecorderError ==
  /\ NoMicrotask
  /\ recorder = "recording"
  /\ recorder' = "stopping"
  /\ recordingState' = "error"
  /\ toast' = MkToast("error", Null)
  /\ keyClosure' = KeyClosureAfter("error", text)
  /\ UNCHANGED << text, selection, domSel, undoSnapshot, undoSnapshotRef, actionState,
                  chatAbortRef, cancelledByUserRef, sessions, edits, confirmAsked, call, fnVars,
                  transcribeAbortRef, lastAudioBlobRef, micPending, trs, recordings >>

\* handleStopRecording while recording
StopRecording ==
  /\ NoMicrotask
  /\ recordingState = "recording"
  /\ recordingState' = "transcribing"
  /\ recorder' = IF recorder = "recording" THEN "stopping" ELSE recorder
  /\ keyClosure' = KeyClosureAfter("transcribing", text)
  /\ UNCHANGED << text, selection, domSel, undoSnapshot, undoSnapshotRef, actionState,
                  chatAbortRef, cancelledByUserRef, toast, sessions, edits, confirmAsked, call, fnVars,
                  transcribeAbortRef, lastAudioBlobRef, micPending, trs, recordings >>

\* catch and finally of transcribeAudio invocation t, where cancelled is
\* cancelledByUserRef.current as the catch reads it
TrCatchFinally(t, cancelled) ==
  /\ toast' = IF cancelled THEN MkToast("info", Null)
              ELSE IF lastAudioBlobRef THEN MkRetryToast
              ELSE MkToast("error", Null)
  /\ recordingState' = IF cancelled THEN "idle" ELSE "error"
  /\ keyClosure' = KeyClosureAfter(IF cancelled THEN "idle" ELSE "error", text)
  /\ trs' = [trs EXCEPT ![t] =
       [NoTranscription EXCEPT !.pc = "done",
                               !.outcome = IF cancelled THEN "cancelled" ELSE "failed"]]
  /\ transcribeAbortRef' = Null
  /\ cancelledByUserRef' = FALSE
  /\ UNCHANGED << text, selection, domSel, undoSnapshot, undoSnapshotRef, actionState,
                  chatAbortRef, sessions, edits, confirmAsked, call, fnVars,
                  lastAudioBlobRef, micPending, recorder, recordings >>

\* handleStopRecording while transcribing (the cancel button): the abort rejects an
\* attempt in flight, and the rejection runs through both catch blocks at once
CancelTranscribing ==
  /\ NoMicrotask
  /\ recordingState = "transcribing"
  /\ LET held == transcribeAbortRef # Null /\ trs[transcribeAbortRef[1]].pc # "done"
         t == transcribeAbortRef[1]
         rq == IF held THEN UserAborted(trs[t].rq) ELSE NoCall
     IN IF held /\ trs[t].pc = "request" /\ rq.pc = "thrown"
        THEN TrCatchFinally(t, TRUE)
        ELSE /\ cancelledByUserRef' = TRUE
             /\ trs' = IF held THEN [trs EXCEPT ![t].rq = rq] ELSE trs
             /\ recordingState' = "idle"
             /\ toast' = MkToast("info", Null)
             /\ keyClosure' = KeyClosureAfter("idle", text)
             /\ UNCHANGED << text, selection, domSel, undoSnapshot, undoSnapshotRef,
                             actionState, chatAbortRef, sessions, edits, confirmAsked, call, fnVars,
                             transcribeAbortRef, lastAudioBlobRef, micPending, recorder,
                             recordings >>

\* transcribeAudio(blob) up to await requestWithRetry(..., {timeoutMs: 60000, retries: 1})
transcribeAudio(t) ==
  /\ trs[t].pc = "unused"
  /\ \A u \in 1..(t - 1) : trs[u].pc # "unused"
  /\ cancelledByUserRef' = FALSE
  /\ transcribeAbortRef' = Some(t)
  /\ recordingState' = "transcribing"
  /\ keyClosure' = KeyClosureAfter("transcribing", text)
  /\ trs' = [trs EXCEPT ![t] = [NoTranscription EXCEPT !.pc = "request",
                                                       !.rq = NewCall(1, TRUE)]]
  /\ UNCHANGED << text, selection, domSel, undoSnapshot, undoSnapshotRef, actionState,
                  chatAbortRef, toast, sessions, edits, confirmAsked, call, fnVars,
                  micPending, recordings >>

\* recorder.onstop: the blob is kept and transcribed
RecorderStops ==
  /\ NoMicrotask
  /\ recorder = "stopping"
  /\ recorder' = "none"
  /\ lastAudioBlobRef' = TRUE
  /\ \E t \in TrIds : transcribeAudio(t)

\* the retry link of the error toast: onClick: () => transcribeAudio(lastAudioBlobRef.current)
ToastRetry ==
  /\ NoMicrotask
  /\ toast # Null
  /\ toast[1].retry
  /\ \E t \in TrIds : transcribeAudio(t)
  /\ UNCHANGED << lastAudioBlobRef, recorder >>

\* an attempt's request resolves with a response: requestWithRetry returns it
TrResponse(t, status) ==
  /\ NoMicrotask
  /\ trs[t].pc = "request"
  /\ trs[t].rq.pc = "inflight"
  /\ trs' = [trs EXCEPT ![t].rq = Returns(@, status),
                        ![t].pc = IF status = 200 THEN "body" ELSE "errorBody"]
  /\ UNCHANGED << editorVars, call, fnVars, recordingState, transcribeAbortRef,
                  lastAudioBlobRef, micPending, recorder, recordings >>

\* requestWithRetry's catch left the frame rq: thrown to transcribeAudio, or waiting
TrAfterCatch(t, rq) ==
  IF rq.pc = "thrown"
  THEN TrCatchFinally(t, cancelledByUserRef)
  ELSE /\ trs' = [trs EXCEPT ![t].rq = rq]
       /\ UNCHANGED << editorVars, call, fnVars, recordingState, transcribeAbortRef,
                       lastAudioBlobRef, micPending, recorder, recordings >>

\* an attempt's request rejects on its own
TrRejects(t, kind) ==
  /\ NoMicrotask
  /\ trs[t].pc = "request"
  /\ trs[t].rq.pc = "inflight"
  /\ TrAfterCatch(t, Catches(trs[t].rq, kind))

\* an attempt's timer fires
TrTimerFires(t) ==
  /\ NoMicrotask
  /\ trs[t].pc = "request"
  /\ trs[t].rq.pc = "inflight"
  /\ trs[t].rq.timer
  /\ TrAfterCatch(t, TimedOut(trs[t].rq))

\* the backoff delay is over: the next attempt is issued
TrDelayElapses(t) ==
  /\ NoMicrotask
  /\ trs[t].pc = "request"
  /\ trs[t].rq.pc = "backoff"
  /\ trs' = [trs EXCEPT ![t].rq = AfterDelay(@)]
  /\ UNCHANGED << editorVars, call, fnVars, recordingState, transcribeAbortRef,
                  lastAudioBlobRef, micPending, recorder, recordings >>

\* await parseError(res) is over: throw new Error(msg)
TrErrorBody(t) ==
  /\ NoMicrotask
  /\ trs[t].pc = "errorBody"
  /\ TrCatchFinally(t, cancelledByUserRef)

\* await res.json() is over: an empty transcript throws, any other is inserted at
\* lastCursorRef
TrBody(t, transcript) ==
  /\ NoMicrotask
  /\ trs[t].pc = "body"
  /\ IF transcript = <<>>
     THEN TrCatchFinally(t, cancelledByUserRef)
     ELSE LET r == clampRange(lastCursorRef.start, lastCursorRef.end, Len(text))
              next == Slice(text, 0, r[1]) \o transcript \o SliceFrom(text, r[2])
          IN /\ text' = next
             /\ domSel' = DomAfterWrite(next)
             /\ selection' = Collapsed(r[1] + Len(transcript))
             /\ recordingState' = "idle"
             /\ keyClosure' = KeyClosureAfter("idle", next)
             /\ toast' = MkToast("success", Null)
             /\ trs' = [trs EXCEPT ![t] =
                  [NoTranscription EXCEPT !.pc = "done", !.outcome = "inserted"]]
             /\ transcribeAbortRef' = Null
             /\ cancelledByUserRef' = FALSE
             /\ UNCHANGED << undoSnapshot, undoSnapshotRef, actionState, chatAbortRef,
                             sessions, edits, confirmAsked, call, fnVars,
                             lastAudioBlobRef, micPending, recorder, recordings >>

\* the editor of the article "abc" with its recorder, transcriptions and Fix/Polish

RecInit == InitAt(<<"a", "b", "c">>)

RecNext ==
  \/ StartRecording
  \/ MicGranted
  \/ MicDenied
  \/ RecorderError
  \/ StopRecording
  \/ CancelTranscribing
  \/ RecorderStops
  \/ ToastRetry
  \/ \E t \in TrIds : \E st \in Statuses : TrResponse(t, st)
  \/ \E t \in TrIds : \E k \in RejectKinds : TrRejects(t, k)
  \/ \E t \in TrIds : TrTimerFires(t)
  \/ \E t \in TrIds : TrDelayElapses(t)
  \/ \E t \in TrIds : TrErrorBody(t)
  \/ \E t \in TrIds : \E tr \in Transcripts : TrBody(t, tr)
  \/ \E a \in ActionTypes : ClickAction(a)
  \/ \E i \in SessionIds : AbortRejects(i)
  \/ \E i \in SessionIds : RequestFails(i)
  \/ \E i \in SessionIds : ResponseOk(i)
  \/ \E i \in SessionIds : StreamEnds(i)

RecSpec == RecInit /\ [][RecNext]_vars

\* what the code itself schedules is bound to happen: a queued rejection resumes its
\* catch, an armed timer or a delay runs out, a stopped recorder reports onstop; the
\* user and the server are bound to nothing
FairRecSpec ==
  /\ RecSpec
  /\ WF_vars(\E i \in SessionIds : AbortRejects(i))
  /\ WF_vars(\E t \in TrIds : TrTimerFires(t))
  /\ WF_vars(\E t \in TrIds : TrDelayElapses(t))
  /\ WF_vars(RecorderStops)

(* ---------------------------- the long-text gate ------------------------ *)

\* a text of n characters
LongText(n) == [k \in 1..n |-> "a"]

\* article contents below, at and above LONG_TEXT_THRESHOLD
GateTexts ==
  { <<"a", "b", "c">>, LongText(LONG_TEXT_THRESHOLD), LongText(LONG_TEXT_THRESHOLD + 1) }

GateInit == \E t \in GateTexts : InitAt(t)

\* selecting, typing, invoking Fix/Polish, and requests that end
GateNext ==
  \/ \E r \in SelectableRanges : r[2] <= Len(text) /\ SelectRange(r[1], r[2])
  \/ \E c \in TypedChars : TypeChar(c)
  \/ \E a \in ActionTypes : ClickAction(a)
  \/ \E a \in ActionTypes : ShortcutAction(a)
  \/ \E i \in SessionIds : AbortRejects(i)
  \/ \E i \in SessionIds : RequestFails(i)
  \/ \E i \in SessionIds : ResponseOk(i)
  \/ \E i \in SessionIds : ReadFails(i)

GateSpec == GateInit /\ [][GateNext]_vars

(* ------------------- streams that carry no content -------------------- *)

\* ranges the user selects here: a caret and the first character
EmptyResultRanges == { <<0, 0>>, <<0, 1>> }

EmptyResultInit == InitAt(<<"a", "b", "c">>)

\* selecting, typing, invoking Fix/Polish, and streams that end with no delta read
EmptyResultNext ==
  \/ \E r \in EmptyResultRanges : r[2] <= Len(text) /\ SelectRange(r[1], r[2])
  \/ \E c \in TypedChars : TypeChar(c)
  \/ \E a \in ActionTypes : ClickAction(a)
  \/ \E i \in SessionIds : AbortRejects(i)
  \/ \E i \in SessionIds : ResponseOk(i)
  \/ \E i \in SessionIds : StreamEnds(i)

EmptyResultSpec == EmptyResultInit /\ [][EmptyResultNext]_vars

(* ------------------ a transcript and the selection ---------------------- *)

\* record, select, stop and transcribe in the markdown view
InsertInit == InitAt(<<"a", "b", "c">>)

InsertNext ==
  \/ \E r \in SelectableRanges : r[2] <= Len(text) /\ SelectRange(r[1], r[2])
  \/ StartRecording
  \/ MicGranted
  \/ StopRecording
  \/ RecorderStops
  \/ \E t \in TrIds : TrResponse(t, 200)
  \/ \E t \in TrIds : \E tr \in Transcripts : TrBody(t, tr)

InsertSpec == InsertInit /\ [][InsertNext]_vars

(* ----------------------- clampRange and its callers --------------------- *)

\* start and end of a clampRange call on its own: below 0, inside and above max
ClampInts == (0 - 1)..(MaxClamp + 1)

ClampInit ==
  /\ EditorAt(<<"a", "b", "c">>)
  /\ call = NoCall
  /\ SanitizeIdle
  /\ RecIdle
  /\ PageIdle
  /\ WysIdle
  /\ clampArgs \in [start : ClampInts, end : ClampInts, max : 0..MaxClamp]
  /\ clampResult = Null

\* clampRange applied to clampArgs
Clamp ==
  /\ clampResult = Null
  /\ clampResult' = Some(clampRange(clampArgs.start, clampArgs.end, clampArgs.max))
  /\ UNCHANGED << editorVars, call, pageVars, sanVars, recVars, wysVars, cursorAtStart,
                  clampArgs >>

\* the call on its own, and the callers: a Fix/Polish session on the live selection
\* and a transcript inserted at lastCursorRef
ClampNext ==
  \/ Clamp
  \/ \E r \in SelectableRanges : r[2] <= Len(text) /\ SelectRange(r[1], r[2])
  \/ \E a \in ActionTypes : ClickAction(a)
  \/ \E i \in SessionIds : AbortRejects(i)
  \/ StartRecording
  \/ MicGranted
  \/ StopRecording
  \/ RecorderStops
  \/ \E t \in TrIds : TrResponse(t, 200)
  \/ \E t \in TrIds : \E tr \in Transcripts : TrBody(t, tr)

ClampSpec == ClampInit /\ [][ClampNext]_vars

(* --------------------------- the rich-text view ------------------------- *)

\* The content of the view is a sequence of items: a character, the text of a
\* boundary marker (one item), "<blank>" and "</blank>" around the inside of a
\* <div data-blank-line>, and the two marker nodes while they are inserted. A
\* position is a number of items before it.

SELECTION_START_TOKEN == "FLOWPASTESELECTIONSTARTTOKEN"

SELECTION_END_TOKEN == "FLOWPASTESELECTIONENDTOKEN"

\* the text nodes readWysiwygSelectionRange creates
MarkerNodes == { "startMarker", "endMarker" }

\* String.prototype.includes for the text of a marker
Includes(s, token) == \E k \in 1..Len(s) : s[k] = token

\* the length in UTF-16 units of an item of a string
UnitLen(c) ==
  IF c = SELECTION_START_TOKEN THEN 28
  ELSE IF c = SELECTION_END_TOKEN THEN 26
  ELSE 1

\* String.prototype.indexOf(token) on md[i..], off units into the string
RECURSIVE IndexFrom(_, _, _, _)
IndexFrom(md, token, i, off) ==
  IF i > Len(md) THEN 0 - 1
  ELSE IF md[i] = token THEN off
  ELSE IndexFrom(md, token, i + 1, off + UnitLen(md[i]))

IndexOf(md, token) == IndexFrom(md, token, 1, 0)

\* the line breaks md[i..] begins with
RECURSIVE BreaksAt(_, _)
BreaksAt(md, i) ==
  IF i <= Len(md) /\ md[i] = "\n" THEN 1 + BreaksAt(md, i + 1) ELSE 0

\* n placeholders <div data-blank-line></div> joined by line breaks
RECURSIVE Placeholders(_)
Placeholders(n) ==
  IF n = 0 THEN <<>>
  ELSE IF n = 1 THEN << "<blank>", "</blank>" >>
  ELSE << "<blank>", "</blank>", "\n" >> \o Placeholders(n - 1)

\* injectBlankPlaceholders and marked.parse on md[i..]: three or more line breaks
\* become two and a placeholder for each further one
RECURSIVE RenderFrom(_, _)
RenderFrom(md, i) ==
  IF i > Len(md) THEN <<>>
  ELSE IF md[i] # "\n" THEN <<md[i]>> \o RenderFrom(md, i + 1)
  ELSE LET n == BreaksAt(md, i)
       IN IF n >= 3
          THEN << "\n", "\n" >> \o Placeholders(n - 2) \o RenderFrom(md, i + n)
          ELSE SubSeq(md, i, i + n - 1) \o RenderFrom(md, i + n)

renderMarkdownToHtml(md) == RenderFrom(md, 1)

\* turndown over dom[i..]: the blank-line rule replaces a placeholder, whatever it
\* holds, by two line breaks; a text node gives its text
RECURSIVE TurndownFrom(_, _, _)
TurndownFrom(dom, i, inBlank) ==
  IF i > Len(dom) THEN <<>>
  ELSE LET c == dom[i]
       IN IF c = "<blank>" THEN << "\n", "\n" >> \o TurndownFrom(dom, i + 1, TRUE)
          ELSE IF c = "</blank>" THEN TurndownFrom(dom, i + 1, FALSE)
          ELSE IF inBlank THEN TurndownFrom(dom, i + 1, TRUE)
          ELSE IF c = "startMarker"
               THEN <<SELECTION_START_TOKEN>> \o TurndownFrom(dom, i + 1, FALSE)
          ELSE IF c = "endMarker"
               THEN <<SELECTION_END_TOKEN>> \o TurndownFrom(dom, i + 1, FALSE)
          ELSE <<c>> \o TurndownFrom(dom, i + 1, FALSE)

\* turndown's join: at most two line breaks between the parts of the output
RECURSIVE JoinBreaks(_, _)
JoinBreaks(md, i) ==
  IF i > Len(md) THEN <<>>
  ELSE IF md[i] # "\n" THEN <<md[i]>> \o JoinBreaks(md, i + 1)
  ELSE LET n == BreaksAt(md, i)
       IN SubSeq(md, i, i + Min(n, 2) - 1) \o JoinBreaks(md, i + n)

\* turndown.turndown(wysiwygRef.current.innerHTML); the output is trimmed
turndown(dom) == Trim(JoinBreaks(TurndownFrom(dom, 1, FALSE), 1))

\* Range.insertNode of a collapsed range at position at
InsertNode(dom, at, node) == SubSeq(dom, 1, at) \o <<node>> \o SubSeq(dom, at + 1, Len(dom))

\* removeChild of both markers
RemoveMarkers(dom) == SelectSeq(dom, LAMBDA c : c \notin MarkerNodes)

InView(start, end) == [where |-> "editor", start |-> start, end |-> end]

\* readWysiwygSelectionRange as created by a render whose buffer was closureText, with
\* lastWysiwygRangeRef holding last: what it returns, what it leaves behind and the
\* way it took
readWysiwygSelectionRange(closureText, last) ==
  LET range == IF wysSel.where = "editor" THEN Some(wysSel) ELSE last
      untouched == [NoWysRead EXCEPT !.collided = Includes(text, SELECTION_START_TOKEN)
                                                    \/ Includes(text, SELECTION_END_TOKEN)]
  IN IF range = Null
     THEN [ result |-> Null, dom |-> wysDom, sel |-> wysSel,
            trace |-> [untouched EXCEPT !.exit = "noRange"] ]
     ELSE IF Includes(closureText, SELECTION_START_TOKEN)
               \/ Includes(closureText, SELECTION_END_TOKEN)
     THEN [ result |-> Null, dom |-> wysDom, sel |-> wysSel,
            trace |-> [untouched EXCEPT !.exit = "collision"] ]
     ELSE LET withEnd == InsertNode(wysDom, range[1].end, "endMarker")
              withBoth == InsertNode(withEnd, range[1].start, "startMarker")
              mdWithMarkers == turndown(withBoth)
              startIndex == IndexOf(mdWithMarkers, SELECTION_START_TOKEN)
              endIndex == IndexOf(mdWithMarkers, SELECTION_END_TOKEN)
              missing == startIndex = 0 - 1 \/ endIndex = 0 - 1
              after == RemoveMarkers(withBoth)
              restored == InView(range[1].start, range[1].end)
          IN [ result |-> IF missing \/ endIndex < startIndex THEN Null
                          ELSE Some([start |-> startIndex, end |-> endIndex - 28]),
               dom |-> after,
               sel |-> restored,
               trace |-> [untouched EXCEPT
                  !.exit = IF missing THEN "notFound"
                           ELSE IF endIndex < startIndex THEN "reversed" ELSE "found",
                  !.inserted = TRUE,
                  !.resolved = ~(missing \/ endIndex < startIndex),
                  !.domKept = (after = wysDom),
                  !.selKept = (restored = wysSel)] ]

\* the positions of the view that are not inside a placeholder
Outside(dom, at) == ~(at >= 1 /\ at < Len(dom) /\ dom[at] = "<blank>")

\* what the user types or pastes into the view
WysiwygInputs == { "x", SELECTION_START_TOKEN, SELECTION_END_TOKEN }

\* selectionchange: the user puts the selection into the view, or takes it out of it;
\* captureWysiwygSelectionRange keeps a range that lies in the view
SelectionChange(sel) ==
  /\ NoMicrotask
  /\ sel # wysSel
  /\ wysSel' = sel
  /\ lastWysiwygRangeRef' = IF sel.where = "editor" THEN Some(sel) ELSE lastWysiwygRangeRef
  /\ UNCHANGED << editorVars, call, pageVars, sanVars, clampVars, recVars, wysDom,
                  suppressWysiwygInputRef, lastSyncedMdRef, micClosure, wysRead,
                  wysInputs, cursorAtStart >>

\* onKeyUp / onMouseUp of the view, and onMouseDown of the Fix and Polish buttons:
\* snapshotWysiwygSelection of the current render
snapshotWysiwygSelection ==
  /\ NoMicrotask
  /\ LET last == IF wysSel.where = "editor" THEN Some(wysSel) ELSE lastWysiwygRangeRef
         r == readWysiwygSelectionRange(text, last)
     IN /\ lastWysiwygRangeRef' = last
        /\ selection' = IF r.result # Null THEN r.result[1] ELSE selection
        /\ wysDom' = r.dom
        /\ wysSel' = r.sel
        /\ wysRead' = r.trace
  /\ UNCHANGED << text, domSel, undoSnapshot, undoSnapshotRef, actionState, chatAbortRef,
                  cancelledByUserRef, toast, keyClosure, sessions, edits, confirmAsked,
                  call, pageVars, sanVars, clampVars, recVars, suppressWysiwygInputRef,
                  lastSyncedMdRef, micClosure, wysInputs, cursorAtStart >>

\* the user types or pastes c over a selection that lies in the view: the input event
\* runs handleWysiwygInput, the caret follows the inserted text
handleWysiwygInput(c) ==
  /\ NoMicrotask
  /\ wysInputs < MaxWysiwygInputs
  /\ wysSel.where = "editor"
  /\ Outside(wysDom, wysSel.start) /\ Outside(wysDom, wysSel.end)
  /\ LET dom == SubSeq(wysDom, 1, wysSel.start) \o <<c>>
                  \o SubSeq(wysDom, wysSel.end + 1, Len(wysDom))
         md == turndown(dom)
         caret == InView(wysSel.start + 1, wysSel.start + 1)
     IN /\ wysDom' = dom
        /\ wysSel' = caret
        /\ lastWysiwygRangeRef' = Some(caret)
        /\ text' = IF suppressWysiwygInputRef THEN text ELSE md
        /\ lastSyncedMdRef' = IF suppressWysiwygInputRef THEN lastSyncedMdRef ELSE md
  /\ wysInputs' = wysInputs + 1
  /\ UNCHANGED << selection, domSel, undoSnapshot, undoSnapshotRef, actionState,
                  chatAbortRef, cancelledByUserRef, toast, keyClosure, sessions, edits,
                  confirmAsked, call, pageVars, sanVars, clampVars, recVars,
                  suppressWysiwygInputRef, micClosure, wysRead, cursorAtStart >>

\* the record button in the rich-text view: handleStartRecording of the current
\* render up to await getUserMedia
WysiwygStartRecording ==
  /\ NoMicrotask
  /\ recordingState \in {"idle", "error"}
  /\ ~micPending
  /\ recorder = "none"
  /\ recordings < MaxRecordings
  /\ micPending' = TRUE
  /\ micClosure' = Some([text |-> text, selection |-> selection])
  /\ recordings' = recordings + 1
  /\ UNCHANGED << editorVars, call, pageVars, sanVars, clampVars, recordingState,
                  transcribeAbortRef, lastAudioBlobRef, recorder, trs, wysDom, wysSel,
                  lastWysiwygRangeRef, suppressWysiwygInputRef, lastSyncedMdRef,
                  wysRead, wysInputs, cursorAtStart >>

\* getUserMedia resolves: readSelection of the render that was clicked, then the
\* recorder is started
WysiwygMicGranted ==
  /\ NoMicrotask
  /\ micPending
  /\ micClosure # Null
  /\ LET r == readWysiwygSelectionRange(micClosure[1].text, lastWysiwygRangeRef)
         liveSel == IF r.result # Null THEN r.result[1] ELSE micClosure[1].selection
     IN /\ selection' = liveSel
        /\ cursorAtStart' = liveSel
        /\ wysDom' = r.dom
        /\ wysSel' = r.sel
        /\ wysRead' = r.trace
  /\ micPending' = FALSE
  /\ micClosure' = Null
  /\ recorder' = "recording"
  /\ recordingState' = "recording"
  /\ toast' = MkToast("info", Null)
  /\ keyClosure' = KeyClosureAfter("recording", text)
  /\ UNCHANGED << text, domSel, undoSnapshot, undoSnapshotRef, actionState, chatAbortRef,
                  cancelledByUserRef, sessions, edits, confirmAsked, call, pageVars, sanVars,
                  clampVars, transcribeAbortRef, lastAudioBlobRef, trs, recordings,
                  lastWysiwygRangeRef, suppressWysiwygInputRef, lastSyncedMdRef,
                  wysInputs >>

\* the articles opened in the rich-text view
WysiwygTexts == { <<"x">>, <<"x", "\n", "\n", "\n", "x">> }

\* after mount and a click on the rich-text view button: the effect on [viewMode]
\* has synchronised the view with the buffer
WysiwygInit ==
  \E t \in WysiwygTexts :
    /\ EditorAt(t)
    /\ call = NoCall
    /\ SanitizeIdle
    /\ ClampIdle
    /\ RecIdle
    /\ PageIdle
    /\ wysDom = renderMarkdownToHtml(t)
    /\ wysSel = NoLiveSelection
    /\ lastWysiwygRangeRef = Null
    /\ suppressWysiwygInputRef = FALSE
    /\ lastSyncedMdRef = t
    /\ micClosure = Null
    /\ wysRead = NoWysRead
    /\ wysInputs = 0

\* the ranges of the view the user selects: carets, the first item, and a caret
\* inside the placeholder of the second article
WysiwygRanges == { <<0, 0>>, <<0, 1>>, <<1, 1>>, <<4, 4>> }

\* the selections the user makes: none, outside the view, or a range of the view
LiveSelections ==
  { NoLiveSelection, [where |-> "outside", start |-> 0, end |-> 0] }
    \cup { InView(r[1], r[2]) : r \in { q \in WysiwygRanges : q[2] <= Len(wysDom) } }

WysiwygNext ==
  \/ \E sel \in LiveSelections : SelectionChange(sel)
  \/ snapshotWysiwygSelection
  \/ \E c \in WysiwygInputs : handleWysiwygInput(c)
  \/ WysiwygStartRecording
  \/ WysiwygMicGranted

WysiwygSpec == WysiwygInit /\ [][WysiwygNext]_vars

(* --------------------- sanitizeModelText on its own --------------------- *)

\* pieces of model output: quotes, white space, a line break, ordinary text, an
\* explanation header and a preamble
Pieces ==
  { <<"\"">>, <<"u201d">>, <<" ">>, <<"\n">>, <<"a">>,
    <<"N", "o", "t", "e", ":">>, <<"R", "e", "s", "u", "l", "t", ":">> }

\* the strings of at most n pieces
RECURSIVE PieceStrings(_)
PieceStrings(n) ==
  IF n = 0 THEN { <<>> }
  ELSE LET shorter == PieceStrings(n - 1)
       IN shorter \cup { s \o q : s \in shorter, q \in Pieces }

SanitizeInit ==
  /\ EditorIdle
  /\ call = NoCall
  /\ RecIdle
  /\ PageIdle
  /\ ClampIdle
  /\ WysIdle
  /\ raw \in PieceStrings(MaxPieces)
  /\ sanitized = Null
  /\ passes = 0

\* sanitizeModelText applied to raw, then to its own result
Sanitize ==
  /\ passes < MaxPasses
  /\ sanitized' = Some(sanitizeModelText(IF passes = 0 THEN raw ELSE sanitized[1]))
  /\ passes' = passes + 1
  /\ UNCHANGED << editorVars, call, pageVars, recVars, clampVars, wysVars,
                  cursorAtStart, raw >>

SanitizeNext == Sanitize

SanitizeSpec == SanitizeInit /\ [][SanitizeNext]_vars

(* ------------------------------- useToast ------------------------------- *)

\* window.setTimeout(() => setToast(null), 3200)
TOAST_MS == 3200

\* the toasts the handlers show: showToast(message, kind, action)
ShownToasts ==
  { MkToast(k, a) : k \in {"info", "success", "error"}, a \in {Null, Some(<<"a">>)} }
    \cup { MkRetryToast }

\* the effect arms a timer: neither toast.kind === 'error' nor toast.action
Dismissible(t) == t.kind # "error" /\ t.action = Null /\ ~t.retry

\* the effect on [toast] that keeps the timers of earlier toasts armed
ToastEffectWithoutCleanup(timers, t, seq) ==
  IF t # Null /\ Dismissible(t[1])
  THEN timers \cup { [toast |-> seq, elapsed |-> 0] }
  ELSE timers

\* the effect on [toast], run after the toast t (object number seq) was rendered: the
\* cleanup of the previous run clears its timer, then a timer is armed for t
ToastEffect(timers, t, seq) ==
  IF t # Null /\ Dismissible(t[1])
  THEN { [toast |-> seq, elapsed |-> 0] }
  ELSE {}

\* the editor's state other than the toast
editorButToast == << text, selection, domSel, undoSnapshot, undoSnapshotRef,
                    actionState, chatAbortRef, cancelledByUserRef, keyClosure,
                    sessions, edits, confirmAsked >>

\* showToast: setToast of a new object
showToast(t) ==
  /\ toastSeq < MaxToasts
  /\ toast' = t
  /\ toastSeq' = toastSeq + 1
  /\ toastTimers' = ToastEffect(toastTimers, t, toastSeq + 1)
  /\ toastGone' = "none"
  /\ UNCHANGED << editorButToast, call, sanVars, clampVars, wysVars, cursorAtStart,
                  articleVars, sse, recVars >>

\* the close button of the toast: onClick={() => setToast(null)}
CloseToast ==
  /\ toast # Null
  /\ toast' = Null
  /\ toastTimers' = ToastEffect(toastTimers, Null, toastSeq)
  /\ toastGone' = "closed"
  /\ UNCHANGED << toastSeq, editorButToast, call, sanVars, clampVars, wysVars,
                  cursorAtStart, articleVars, sse, recVars >>

\* time passes for the armed timers
ToastTick ==
  /\ \E tm \in toastTimers : tm.elapsed < TOAST_MS
  /\ toastTimers' = { [tm EXCEPT !.elapsed = Min(@ + TickMs, TOAST_MS)] : tm \in toastTimers }
  /\ UNCHANGED << toast, toastSeq, toastGone, editorButToast, call, sanVars, clampVars,
                  wysVars, cursorAtStart, articleVars, sse, recVars >>

\* a timeout runs out: setToast(null); with no toast up nothing is rendered again
ToastTimerFires ==
  \E tm \in toastTimers :
    /\ tm.elapsed = TOAST_MS
    /\ toast' = Null
    /\ toastTimers' = IF toast = Null THEN toastTimers \ {tm}
                      ELSE ToastEffect(toastTimers \ {tm}, Null, toastSeq)
    /\ toastGone' = IF toast = Null THEN toastGone ELSE "timer"
    /\ UNCHANGED << toastSeq, editorButToast, call, sanVars, clampVars, wysVars,
                    cursorAtStart, articleVars, sse, recVars >>

ToastInit == InitAt(<<"a", "b", "c">>)

ToastNext ==
  \/ \E t \in ShownToasts : showToast(t)
  \/ CloseToast
  \/ ToastTick
  \/ ToastTimerFires

ToastSpec == ToastInit /\ [][ToastNext]_vars

\* time passes, and a timeout that has run out calls its callback
FairToastSpec ==
  /\ ToastSpec
  /\ WF_vars(ToastTick)
  /\ WF_vars(ToastTimerFires)

(* ------------------------------- articles ------------------------------- *)

\* an Article, without its title and updatedAt
Article(id, content) == [id |-> id, content |-> content]

\* articles.find(a => a.id === id): Null or the first article with that id
Find(list, id) ==
  LET hits == SelectSeq(list, LAMBDA a : a.id = id)
  IN IF hits = <<>> THEN Null ELSE Some(hits[1])

\* prev.findIndex(a => a.id === id): 0 stands for -1
FindIndex(list, id) ==
  IF \E k \in 1..Len(list) : list[k].id = id
  THEN CHOOSE k \in 1..Len(list) :
         list[k].id = id /\ \A j \in 1..(k - 1) : list[j].id # id
  ELSE 0

\* the effect on [text, currentArticleId]: the current article takes the buffer
SaveArticle(list, id, tx) ==
  LET idx == FindIndex(list, id)
  IN IF idx = 0 \/ list[idx].content = tx THEN list
     ELSE [list EXCEPT ![idx].content = tx]

\* what localStorage holds when the page is opened: nothing, or the list and the
\* current id an earlier visit saved
SavedStates ==
  { [articles |-> <<>>, id |-> 0] }
    \cup { [articles |-> << Article(2, <<"b">>), Article(1, <<"a">>) >>, id |-> i] :
             i \in {1, 2} }

\* useState(() => ...) of articles
InitialArticles(saved, t) ==
  IF Len(saved.articles) > 0 THEN saved.articles ELSE << Article(t, <<>>) >>

\* useState(() => ...) of text
InitialText(saved) ==
  IF saved.articles = <<>> THEN <<>>
  ELSE LET targetId == IF saved.id # 0 THEN saved.id ELSE saved.articles[1].id
           article == Find(saved.articles, targetId)
       IN IF article # Null THEN article[1].content ELSE saved.articles[1].content

\* Date.now() when the page is constructed; the articles of earlier visits have
\* smaller ids
ConstructedAt == 3

\* the first render of the page; the user's first event comes at a later clock value
ArticleInit ==
  \E saved \in SavedStates :
    /\ EditorAt(InitialText(saved))
    /\ call = NoCall
    /\ SanitizeIdle
    /\ ClampIdle
    /\ WysIdle
    /\ RecIdle
    /\ ToastIdle
    /\ sse = NoStream
    /\ now = ConstructedAt + 1
    /\ articles = InitialArticles(saved, ConstructedAt)
    /\ currentArticleId = saved.id
    /\ mounted = FALSE

\* the editor's state other than the buffer, its DOM selection and the toast
editorButText == << selection, undoSnapshot, undoSnapshotRef, actionState, chatAbortRef,
                   cancelledByUserRef, keyClosure, sessions, confirmAsked >>

otherThanArticles == << call, sanVars, clampVars, wysVars, cursorAtStart, toastVars,
                       sse, recVars >>

\* the list a handler's closure holds: the effect on [text, currentArticleId] has
\* stored the buffer in the current article by the time the user's next event comes
SavedArticles == SaveArticle(articles, currentArticleId, text)

\* setCurrentArticleId(id); setText(content), then the effect that saves the buffer
OpenArticle(list, id, content) ==
  /\ currentArticleId' = id
  /\ text' = content
  /\ domSel' = DomAfterWrite(content)
  /\ articles' = SaveArticle(list, id, content)

\* the effect of the first render that validates currentArticleId
Mount ==
  /\ ~mounted
  /\ mounted' = TRUE
  /\ IF Find(articles, currentArticleId) = Null
     THEN IF Len(articles) > 0
          THEN OpenArticle(articles, articles[1].id, articles[1].content)
          ELSE OpenArticle(<< Article(now, <<>>) >>, now, <<>>)
     ELSE UNCHANGED << articles, currentArticleId, text, domSel >>
  /\ UNCHANGED << now, toast, edits, editorButText, otherThanArticles >>

\* the clock moves on
ClockTick ==
  /\ now < MaxClock
  /\ now' = now + 1
  /\ UNCHANGED << articles, currentArticleId, mounted, editorVars, otherThanArticles >>

\* the + New button
handleNewArticle ==
  /\ mounted
  /\ Len(SavedArticles) < MaxArticles
  /\ OpenArticle(<< Article(now, <<>>) >> \o SavedArticles, now, <<>>)
  /\ UNCHANGED << now, mounted, toast, edits, editorButText, otherThanArticles >>

\* a click on the article id of the sidebar
handleSelectArticle(id) ==
  /\ mounted
  /\ Find(SavedArticles, id) # Null
  /\ IF id = currentArticleId
     THEN UNCHANGED << articles, currentArticleId, text, domSel >>
     ELSE OpenArticle(SavedArticles, id, Find(SavedArticles, id)[1].content)
  /\ UNCHANGED << now, mounted, toast, edits, editorButText, otherThanArticles >>

\* the delete button of the article id; confirmed is the answer to window.confirm
handleDeleteArticle(id, confirmed) ==
  /\ mounted
  /\ Find(SavedArticles, id) # Null
  /\ IF Len(SavedArticles) <= 1
     THEN /\ toast' = MkToast("error", Null)
          /\ UNCHANGED << articles, currentArticleId, text, domSel >>
     ELSE /\ toast' = toast
          /\ IF ~confirmed
             THEN UNCHANGED << articles, currentArticleId, text, domSel >>
             ELSE LET newArticles == SelectSeq(SavedArticles, LAMBDA a : a.id # id)
                  IN IF currentArticleId # id
                     THEN /\ articles' = newArticles
                          /\ UNCHANGED << currentArticleId, text, domSel >>
                     ELSE IF newArticles = <<>>
                          \* next is undefined: next.id throws after setArticles
                          THEN /\ articles' = newArticles
                               /\ UNCHANGED << currentArticleId, text, domSel >>
                          ELSE OpenArticle(newArticles, newArticles[1].id,
                                           newArticles[1].content)
  /\ UNCHANGED << now, mounted, edits, editorButText, otherThanArticles >>

\* the user types a character at the end of the buffer; the effect saves the buffer
ArticleEdit(c) ==
  /\ mounted
  /\ edits < MaxEdits
  /\ text' = Append(text, c)
  /\ domSel' = Collapsed(Len(text) + 1)
  /\ selection' = Collapsed(Len(text) + 1)
  /\ edits' = edits + 1
  /\ articles' = SaveArticle(articles, currentArticleId, Append(text, c))
  /\ UNCHANGED << currentArticleId, now, mounted, toast, undoSnapshot, undoSnapshotRef,
                  actionState, chatAbortRef, cancelledByUserRef, keyClosure, sessions,
                  confirmAsked, otherThanArticles >>

\* the ids shown in the sidebar
ListedIds == { articles[k].id : k \in 1..Len(articles) }

ArticleNext ==
  \/ Mount
  \/ ClockTick
  \/ handleNewArticle
  \/ \E id \in ListedIds : handleSelectArticle(id)
  \/ \E id \in ListedIds : \E confirmed \in BOOLEAN : handleDeleteArticle(id, confirmed)
  \/ \E c \in TypedChars : ArticleEdit(c)

ArticleSpec == ArticleInit /\ [][ArticleNext]_vars

(* ---------------------- actions on blank targets ----------------------- *)

\* article contents that are empty, whitespace only, or that hold whitespace the
\* user can select
BlankTexts == { <<>>, << " " >>, << "a", " " >> }

BlankInit == \E t \in BlankTexts : InitAt(t)

BlankSpec == BlankInit /\ [][Next]_vars

(* ------------------ dictation while an action streams ------------------ *)

\* handleStartRecording tests recordingState only, so the user can record and have
\* the transcript inserted while a Fix / Polish session reads its stream; the
\* transcription's requests are answered at the first attempt
DictationNext ==
  \/ StartRecording
  \/ MicGranted
  \/ StopRecording
  \/ RecorderStops
  \/ \E t \in TrIds : \E st \in Statuses : TrResponse(t, st)
  \/ \E t \in TrIds : TrErrorBody(t)
  \/ \E t \in TrIds : \E tr \in Transcripts : TrBody(t, tr)
  \/ \E a \in ActionTypes : ClickAction(a)
  \/ \E i \in SessionIds : AbortRejects(i)
  \/ \E i \in SessionIds : RequestFails(i)
  \/ \E i \in SessionIds : ResponseOk(i)
  \/ \E i \in SessionIds : \E d \in Deltas : ReadDelta(i, d)
  \/ \E i \in SessionIds : StreamEnds(i)

DictationSpec == RecInit /\ [][DictationNext]_vars

(* ------------------- the sidebar while an action runs ------------------- *)

\* The sidebar stays enabled while a Fix / Polish session is requesting or
\* streaming, and the Undo button stays enabled after an article is opened. The
\* session's setText and applyUndoSnapshot write the buffer; the effect on
\* [text, currentArticleId] then stores the buffer in the article that is current
\* at that render, which SavedArticles reads.

\* the Fix / Polish sessions started while the sidebar is watched
MaxSidebarSessions == 1

StartedSessions == Cardinality({ i \in SessionIds : sessions[i].pc # "unused" })

SidebarNext ==
  \/ Mount
  \/ ClockTick
  \/ handleNewArticle
  \/ \E id \in ListedIds : handleSelectArticle(id)
  \/ \E id \in ListedIds : \E confirmed \in BOOLEAN : handleDeleteArticle(id, confirmed)
  \/ \E a \in ActionTypes :
       /\ mounted
       /\ actionState = "processing" \/ StartedSessions < MaxSidebarSessions
       /\ ClickAction(a)
  \/ \E i \in SessionIds : AbortRejects(i)
  \/ \E i \in SessionIds : RequestFails(i)
  \/ \E i \in SessionIds : ResponseOk(i)
  \/ \E i \in SessionIds : \E d \in Deltas : ReadDelta(i, d)
  \/ \E i \in SessionIds : ReadFails(i)
  \/ \E i \in SessionIds : StreamEnds(i)
  \/ mounted /\ handleUndo
  \/ mounted /\ ToastUndo

SidebarSpec == ArticleInit /\ [][SidebarNext]_vars

(* ------------------------- the stream read loop ------------------------- *)

\* The characters of a response body: "d" stands for the prefix `data: `, "X" and
\* "Y" for a JSON object whose choices[0].delta.content is X or Y, "e" for a JSON
\* object without content, "!" for text that is not JSON, "E" for `[DONE]`.

\* trimmed === 'data: [DONE]'
DONE_LINE == <<"d", "E">>

\* the lines a server sends
BodyLines ==
  { <<"d", "X">>, <<"d", "Y">>, <<"d", "e">>, <<"d", "!">>, DONE_LINE, <<>>, <<"X">> }

\* the bodies of up to n lines, each line ended by a newline
RECURSIVE TerminatedBodies(_)
TerminatedBodies(n) ==
  IF n = 0 THEN { <<>> }
  ELSE LET shorter == TerminatedBodies(n - 1)
       IN shorter \cup { b \o l \o <<"\n">> : b \in shorter, l \in BodyLines }

\* the same, and those whose last line is not ended by a newline
Bodies ==
  TerminatedBodies(MaxLines)
    \cup { b \o l : b \in TerminatedBodies(MaxLines - 1), l \in BodyLines }

\* json.choices?.[0]?.delta?.content || '' of JSON.parse(payload); a payload that is
\* not JSON throws, is logged and skipped
DeltaOf(payload) ==
  IF payload \in { <<"X">>, <<"Y">> } THEN payload ELSE <<>>

\* the body of `for (const line of lines)` for one line
ProcessLine(acc, line) ==
  LET trimmed == Trim(line)
  IN IF trimmed = <<>> \/ trimmed = DONE_LINE THEN acc
     ELSE IF StartsWith(trimmed, <<"d">>) THEN acc \o DeltaOf(Tail(trimmed))
     ELSE acc

RECURSIVE ProcessLines(_, _)
ProcessLines(acc, lines) ==
  IF lines = <<>> THEN acc ELSE ProcessLines(ProcessLine(acc, Head(lines)), Tail(lines))

\* the response arrives: const reader = res.body.getReader(); let buffer = ''
SseInit ==
  /\ EditorAt(<<"a", "b", "c">>)
  /\ call = NoCall
  /\ SanitizeIdle
  /\ ClampIdle
  /\ WysIdle
  /\ RecIdle
  /\ ToastIdle
  /\ ArticleIdle
  /\ \E b \in Bodies : sse = [NoStream EXCEPT !.pc = "reading", !.body = b, !.rest = b]

\* reader.read() delivers the next n characters: buffer += decoder.decode(value);
\* lines = buffer.split('\n'); buffer = lines.pop() || ''; for (const line of lines)
SseRead(n) ==
  /\ sse.pc = "reading"
  /\ n <= Len(sse.rest)
  /\ LET value == SubSeq(sse.rest, 1, n)
         lines == SplitLines(sse.buffer \o value)
         whole == SubSeq(lines, 1, Len(lines) - 1)
     IN sse' = [sse EXCEPT
                  !.rest = SubSeq(sse.rest, n + 1, Len(sse.rest)),
                  !.buffer = lines[Len(lines)],
                  !.accumulatedContent = ProcessLines(@, whole),
                  !.doneSeen = @ \/ \E k \in 1..Len(whole) : Trim(whole[k]) = DONE_LINE]
  /\ UNCHANGED << editorVars, call, sanVars, clampVars, wysVars, cursorAtStart,
                  toastVars, articleVars, recVars >>

\* the connection is closed: reader.read() reports done and the loop breaks
SseClose ==
  /\ sse.pc = "reading"
  /\ sse.rest = <<>>
  /\ sse' = [sse EXCEPT !.pc = "closed"]
  /\ UNCHANGED << editorVars, call, sanVars, clampVars, wysVars, cursorAtStart,
                  toastVars, articleVars, recVars >>

SseNext ==
  \/ \E n \in 1..(3 * MaxLines) : SseRead(n)
  \/ SseClose

SseSpec == SseInit /\ [][SseNext]_vars

(* ------------------------- steps of a session --------------------------- *)

Active(i) == sessions[i].pc \in {"requesting", "streaming", "aborted"}

\* session i applied a content delta in this step
ChunkStep(i) ==
  /\ sessions[i].pc = "streaming"
  /\ sessions'[i].pc = "streaming"
  /\ sessions'[i].chunks = sessions[i].chunks + 1

\* session i started in this step
StartStep(i) == sessions[i].pc = "unused" /\ sessions'[i].pc = "requesting"

\* session i ended in this step with the given outcome
EndStep(i, outcome) == Active(i) /\ sessions'[i].outcome = outcome

\* snapshot[0:start] + content + snapshot[end:] in selection mode, content alone in
\* full-document mode
Replaced(snapshot, start, end, content) ==
  IF start < end
  THEN Slice(snapshot, 0, start) \o content \o SliceFrom(snapshot, end)
  ELSE content

(* -------------------------------- claims -------------------------------- *)

\* C1: immediately after each content delta is applied, the buffer equals
\* snapshot[0:start] + accumulated + snapshot[end:] in selection mode and accumulated
\* alone in full-document mode, where snapshot is the buffer at invocation and
\* (start, end) the frozen range.
C1_BufferFollowsInvocationBuffer ==
  [][\A i \in SessionIds :
       ChunkStep(i) =>
         text' = Replaced(sessions[i].invokedOn, sessions[i].selStart,
                          sessions[i].selEnd, sessions'[i].accumulatedContent)]_vars

\* C2: once a session cancelled by the user has ended, the buffer equals the buffer
\* as it was when that session was invoked.
C2_CancelRestoresInvocationBuffer ==
  [][\A i \in SessionIds :
       EndStep(i, "cancelled") => text' = sessions[i].invokedOn]_vars

\* C3: whenever a session ends with a surfaced error, the buffer afterwards equals
\* the buffer as it was when that session was invoked.
C3_FailureRestoresInvocationBuffer ==
  [][\A i \in SessionIds :
       EndStep(i, "failed") => text' = sessions[i].invokedOn]_vars

\* C4: when a session commits, the buffer is set to snapshot[0:start] + sanitized +
\* snapshot[end:] in selection mode and to sanitized alone in full-document mode,
\* where sanitized = sanitizeModelText(accumulated) and snapshot, start, end are the
\* values the session froze at invocation.
C4_CommitWritesSanitized ==
  [][\A i \in SessionIds :
       EndStep(i, "committed") =>
         text' = Replaced(sessions[i].currentSnapshot, sessions[i].selStart,
                          sessions[i].selEnd,
                          sanitizeModelText(sessions[i].accumulatedContent))]_vars

\* C4 witness: a selection-mode session on "abc" with range (1, 2) has committed the
\* accumulated text X" (deltas X and ") as X: the buffer is "aXc" under the success
\* toast.
C4_Witness ==
  /\ \E i \in SessionIds : sessions[i].outcome = "committed"
  /\ text = <<"a", "X", "c">>
  /\ toast = MkToast("success", Some(<<"a", "b", "c">>))

\* C5: with a snapshot held, Undo sets the buffer to it and clears it; with no
\* snapshot held, every Undo (the undo button or the undo link of a toast) is a no-op
\* that leaves the buffer unchanged.
C5_UndoConsumedOnce ==
  [][(handleUndo \/ ToastUndo) =>
       IF undoSnapshot = Null
       THEN text' = text
       ELSE text' = undoSnapshot[1] /\ undoSnapshot' = Null]_vars

\* C6: at most one Fix/Polish session is in flight at any time.
C6_AtMostOneSessionInFlight ==
  Cardinality({i \in SessionIds : Active(i)}) <= 1

\* C7: the snapshot frozen for a session, and stored as the undo snapshot when it
\* starts, equals the buffer as it is at the moment of invocation.
C7_SnapshotIsBufferAtInvocation ==
  \A i \in SessionIds : Active(i) => sessions[i].currentSnapshot = sessions[i].invokedOn

\* C8: the range and the mode of a session are those of the live selection at
\* invocation: they never change while the session runs, and every chunk update and
\* the commit write the replacement at that range, whatever the live selection is by
\* then.
C8_RangeFrozenAtInvocation ==
  [][\A i \in SessionIds :
       LET s == sessions[i]
           r == clampRange(s.liveSel.start, s.liveSel.end, Len(s.currentSnapshot))
       IN /\ ChunkStep(i) =>
               /\ sessions'[i].selStart = r[1] /\ sessions'[i].selEnd = r[2]
               /\ sessions'[i].hasSelection = (r[1] # r[2])
               /\ text' = Replaced(s.currentSnapshot, r[1], r[2],
                                   sessions'[i].accumulatedContent)
          /\ EndStep(i, "committed") =>
               text' = Replaced(s.currentSnapshot, r[1], r[2],
                                sanitizeModelText(s.accumulatedContent))]_vars

\* C8 witness: a session invoked with the live selection (1, 2) has applied two
\* chunks at that range after the user moved the selection to (0, 0).
C8_Witness ==
  /\ sessions[1].pc = "streaming"
  /\ sessions[1].chunks = 2
  /\ sessions[1].liveSel = [start |-> 1, end |-> 2]
  /\ selection = Collapsed(0)
  /\ text = <<"a", "X", "\"", "c">>

\* C9: starting a new action replaces the retained snapshot with the buffer at the
\* new invocation.
C9_StartRetainsInvocationBuffer ==
  [][\A i \in SessionIds : StartStep(i) => undoSnapshot' = Some(text)]_vars

\* C10: whenever a session commits, the retained undo snapshot equals the buffer as
\* it was at that session's invocation.
C10_CommitKeepsUndoSnapshot ==
  [][\A i \in SessionIds :
       EndStep(i, "committed") => undoSnapshot' = Some(sessions[i].invokedOn)]_vars

RECURSIVE Pow2(_)
Pow2(n) == IF n = 0 THEN 1 ELSE 2 * Pow2(n - 1)

\* C11: once the user controller is aborted during a backoff delay (an abort in flight
\* ends the call at once, so a call that goes on after an abort was aborted in a
\* backoff), no further request attempt is issued and no response is returned.
C11_NoAttemptAfterCancel ==
  [][call.aborted =>
       /\ call'.issued = call.issued
       /\ call'.pc = "returned" => call.pc = "returned"]_vars

\* C12: a user abort while an attempt is in flight rethrows the attempt's rejection at
\* once, never as a timeout, whether or not earlier attempts timed out; a call that has
\* thrown issues no later attempt.
C12_UserAbortInFlightIsRethrown ==
  [][/\ (call.pc = "inflight" /\ ~call.aborted /\ call'.aborted) =>
          /\ call'.pc = "thrown"
          /\ call'.err = "abort"
          /\ call'.issued = call.issued
          /\ call'.waited = call.waited
     /\ call.pc = "thrown" => (call'.pc = "thrown" /\ call'.issued = call.issued)]_vars

\* C12 witness: the first attempt timed out, the second was aborted by the user in
\* flight and its rejection was rethrown.
C12_Witness ==
  /\ call.pc = "thrown"
  /\ call.err = "abort"
  /\ call.aborted
  /\ call.attempt = 1
  /\ call.waited = <<800>>
  /\ call.issued = 2

\* C13: at most retries + 1 attempts are issued; the delay before the k-th retry is
\* 800 * 2^(k-1) ms; while retries remain (and the user has not cancelled) an attempt
\* that times out or fails with a network error goes to a backoff delay, which ends
\* in a new attempt; a returned response is followed by no further attempt.
C13_AttemptsAndBackoff ==
  [][/\ call'.issued <= call'.retries + 1
     /\ \A k \in 1..Len(call'.waited) : call'.waited[k] = 800 * Pow2(k - 1)
     /\ (call.pc = "inflight" /\ ~call'.aborted /\ call.attempt < call.retries
           /\ call'.pc = "thrown") => call'.err \notin {"timeout", "network"}
     /\ (call.pc = "backoff" /\ call'.pc # "backoff") =>
          /\ call'.pc = "inflight"
          /\ call'.issued = call.issued + 1
          /\ call'.attempt = call.attempt + 1
          /\ Len(call.waited) = call'.attempt
     /\ call.pc = "returned" => (call'.pc = "returned" /\ call'.issued = call.issued)]_vars

\* C13 witness: with retries = 2 the first attempt timed out or failed on the network,
\* so did the second, and the third returned a response after delays of 800 and 1600.
C13_Witness ==
  /\ call.pc = "returned"
  /\ call.retries = 2
  /\ call.issued = 3
  /\ call.waited = <<800, 1600>>
  /\ call.res = 200

\* C14: a Fix/Polish request runs under a time budget, after which it is aborted as a
\* timeout, retried once and then surfaced: no session waits for its response for
\* ever, even when the server never answers and the user does nothing.
C14_UnansweredRequestEnds ==
  \A i \in SessionIds :
    (sessions[i].pc = "requesting") ~> (sessions[i].pc # "requesting")

\* C15: a response with an auth or validation status, or with an empty transcript, is
\* surfaced without a further attempt: requestWithRetry returns the response as it
\* is, the transcription then only ends (failed, unless the user cancelled), and a
\* Fix/Polish session never goes back to requesting.
C15_NoRetryOfSurfacedErrors ==
  [][/\ \A t \in TrIds :
          /\ (trs[t].pc = "request" /\ trs'[t].pc \in {"body", "errorBody"}) =>
               /\ trs'[t].rq.pc = "returned"
               /\ trs'[t].rq.issued = trs[t].rq.issued
          /\ (trs[t].pc \in {"body", "errorBody"} /\ trs'[t].pc # trs[t].pc) =>
               trs'[t].pc = "done"
          /\ (trs[t].pc = "errorBody" /\ trs'[t].pc = "done") =>
               trs'[t].outcome \in {"failed", "cancelled"}
          /\ (trs[t].pc = "errorBody" /\ trs'[t].outcome = "failed") =>
               (toast' # Null /\ toast'[1].kind = "error" /\ recordingState' = "error")
          /\ trs[t].pc \in {"body", "errorBody"} => trs'[t].rq.issued \in {0, trs[t].rq.issued}
          /\ trs[t].pc = "done" => trs'[t] = trs[t]
     /\ \A i \in SessionIds :
          /\ sessions[i].pc # "unused" => sessions'[i].pc # "requesting" \/ sessions[i].pc = "requesting"
          /\ sessions[i].pc = "done" => sessions'[i] = sessions[i]]_vars

\* C15 witness: the only attempt of a transcription was answered 401 and
\* requestWithRetry has returned that response to be reported.
C15_Witness ==
  /\ trs[1].pc = "errorBody"
  /\ trs[1].rq.res = 401
  /\ trs[1].rq.issued = 1
  /\ trs[1].rq.pc = "returned"

\* C16: when an operation the user has cancelled ends (a transcription whose
\* controller was aborted, a Fix/Polish session whose request was aborted), it shows
\* no error toast and does not put the recorder in the error state.
C16_CancelNeverReportsError ==
  [][/\ \A t \in TrIds :
          (trs[t].rq.aborted /\ trs'[t].pc = "done") =>
            /\ toast' # Null /\ toast'[1].kind # "error"
            /\ recordingState' # "error"
     /\ \A i \in SessionIds :
          (sessions[i].pc = "aborted" /\ sessions'[i].pc = "done") =>
            /\ toast' # Null /\ toast'[1].kind # "error"]_vars

GateApplies ==
  LET r == clampRange(domSel.start, domSel.end, Len(text))
  IN r[1] = r[2] /\ Len(text) > LONG_TEXT_THRESHOLD

\* C18: an invocation that issues a request has asked for a confirmation exactly when
\* the selection is empty and the buffer is longer than 8000 characters; a declined
\* confirmation issues no request and changes nothing; no confirmation is asked
\* for otherwise.
C18_LongTextGate ==
  [][/\ \A i \in SessionIds : StartStep(i) => confirmAsked' = GateApplies
     /\ (confirmAsked' /\ ~confirmAsked) => GateApplies
     /\ (confirmAsked' /\ ~confirmAsked /\ sessions' = sessions) =>
          UNCHANGED << text, undoSnapshot, undoSnapshotRef, actionState, chatAbortRef,
                       toast >>]_vars

\* the lines of s none of which is an explanation header
NoHeaderLine(s) ==
  \A k \in 1..Len(SplitLines(s)) : ~IsBannedHeader(Trim(SplitLines(s)[k]))

\* s cut after its first explanation header line (s itself if it has none)
UpToFirstHeader(s) ==
  LET ls == SplitLines(s)
      hs == { k \in 1..Len(ls) : IsBannedHeader(Trim(ls[k])) }
  IN IF hs = {} THEN s
     ELSE JoinLines(SubSeq(ls, 1, CHOOSE k \in hs : \A h \in hs : k <= h))

\* C19: sanitizeModelText applied to its own result gives that result again.
C19_SanitizeIdempotent ==
  passes = 2 => sanitized[1] = sanitizeModelText(raw)

\* C20: no line of the result of sanitizeModelText begins (trimmed) with an explanation
\* header, and the result does not depend on what follows the first such line of the
\* input: it is the result for the input cut after that line.
C20_NoExplanationSection ==
  passes = 1 =>
    /\ NoHeaderLine(sanitized[1])
    /\ sanitized[1] = sanitizeModelText(UpToFirstHeader(raw))

\* C20 witness: "a", a line break and a Note: line followed by more text give "a".
C20_Witness ==
  /\ passes = 1
  /\ raw = <<"a", "\n", "N", "o", "t", "e", ":", "a">>
  /\ sanitized = Some(<<"a">>)

\* C21: the result of sanitizeModelText neither begins nor ends with a quote character.
C21_NoQuoteAtEitherEnd ==
  (passes = 1 /\ sanitized[1] # <<>>) =>
    /\ ~IsQuote(Head(sanitized[1]))
    /\ ~IsQuote(sanitized[1][Len(sanitized[1])])

\* x brought into 0..max
Clamped(x, max) == IF x < 0 THEN 0 ELSE IF x > max THEN max ELSE x

\* transcription t has just inserted its transcript
InsertStep(t) == trs[t].pc = "body" /\ trs'[t].outcome = "inserted"

\* C22: clampRange(start, end, max) returns (s, e) with 0 <= s <= e <= max, the clamped
\* start and end, swapped if reversed; the range of a Fix/Polish session lies within
\* the snapshot it slices, and a transcript replaces a range that lies within the
\* buffer it is inserted into.
C22_ClampedRanges ==
  [][/\ clampResult' # Null =>
          LET s == clampResult'[1][1]
              e == clampResult'[1][2]
              a == Clamped(clampArgs.start, clampArgs.max)
              b == Clamped(clampArgs.end, clampArgs.max)
          IN /\ 0 <= s /\ s <= e /\ e <= clampArgs.max
             /\ IF a <= b THEN s = a /\ e = b ELSE s = b /\ e = a
     /\ \A i \in SessionIds : StartStep(i) =>
          /\ 0 <= sessions'[i].selStart
          /\ sessions'[i].selStart <= sessions'[i].selEnd
          /\ sessions'[i].selEnd <= Len(sessions'[i].currentSnapshot)
     /\ \A t \in TrIds : InsertStep(t) =>
          \E s \in 0..Len(text) : \E e \in s..Len(text) : \E tr \in Transcripts :
            text' = SubSeq(text, 1, s) \o tr \o SubSeq(text, e + 1, Len(text))]_vars

\* C22 witness: clampRange(3, -1, 2) returned (0, 2), a session runs on the range
\* (1, 2) of its snapshot, and a transcript was inserted.
C22_Witness ==
  /\ clampArgs = [start |-> 3, end |-> 0 - 1, max |-> 2]
  /\ clampResult = Some(<<0, 2>>)
  /\ \E i \in SessionIds :
       sessions[i].pc = "requesting" /\ sessions[i].selStart = 1 /\ sessions[i].selEnd = 2
  /\ \E t \in TrIds : trs[t].outcome = "inserted"

\* C23: a call of readWysiwygSelectionRange made while the buffer holds the text of
\* a boundary marker inserts no marker, returns no offsets (readSelection falls back
\* to the selection state) and leaves the view's content as it was.
C23_MarkerCollisionFallsBack ==
  wysRead.collided =>
    /\ ~wysRead.inserted
    /\ ~wysRead.resolved
    /\ wysRead.domKept

\* C24: after every call of readWysiwygSelectionRange the view's content and the
\* buffer are what they were before the call, and the live selection is the one the
\* user had before the call.
C24_ResolutionLeavesNoTrace ==
  wysRead.exit # "none" =>
    /\ wysRead.domKept
    /\ wysRead.textKept
    /\ wysRead.selKept
    /\ Len(RemoveMarkers(wysDom)) = Len(wysDom)
    /\ ~suppressWysiwygInputRef

\* C25: a transcript replaces the range of the buffer given by the selection read
\* when its recording was started, clamped to the buffer, and the selection collapses
\* after the transcript; selecting after the recording started moves nothing.
C25_InsertsAtFrozenCursor ==
  [][\A t \in TrIds : InsertStep(t) =>
       LET r == clampRange(cursorAtStart.start, cursorAtStart.end, Len(text))
       IN \E tr \in Transcripts :
            /\ tr # <<>>
            /\ text' = SubSeq(text, 1, r[1]) \o tr \o SubSeq(text, r[2] + 1, Len(text))
            /\ selection' = Collapsed(r[1] + Len(tr))]_vars

C29_ExhaustedThrowsLastError ==
  [][call'.pc = "thrown" =>
       /\ call'.err # "unreachable"
       /\ (call.pc = "inflight" /\ call.attempt = call.retries) =>
            /\ call'.timedOut => call'.err = "timeout"
            /\ ~call'.timedOut => call'.err \in RejectKinds \cup {"abort"}]_vars

\* C29 witness: with retries >= 1 every attempt was used and the last one timed out
C29_Witness ==
  /\ call.pc = "thrown"
  /\ call.retries >= 1
  /\ call.attempt = call.retries
  /\ call.issued = call.retries + 1
  /\ call.timedOut
  /\ call.err = "timeout"

\* C29 witness of the other case: the last attempt's request failed on the network
C29_WitnessRequestError ==
  /\ call.pc = "thrown"
  /\ call.retries >= 1
  /\ call.attempt = call.retries
  /\ ~call.timedOut
  /\ call.err = "network"

\* transcription t ended in this step
TrEndStep(t) == trs[t].pc \in {"request", "body", "errorBody"} /\ trs'[t].pc = "done"

\* C27: the recording state becomes recording only from idle or error and leaves
\* recording only to transcribing or error; a transcription ends in the transcribing
\* state and takes it to idle when its transcript is inserted (the buffer grows by the
\* transcript) or the user cancelled, and to error when it failed; a click on the
\* record button while recording or transcribing starts nothing.
C27_RecordingStateMachine ==
  [][/\ (recordingState' = "recording" /\ recordingState # "recording") =>
          recordingState \in {"idle", "error"}
     /\ (recordingState = "recording" /\ recordingState' # "recording") =>
          recordingState' \in {"transcribing", "error"}
     /\ \A t \in TrIds : TrEndStep(t) =>
          /\ recordingState = "transcribing"
          /\ trs'[t].outcome = "inserted" => (recordingState' = "idle" /\ text' # text)
          /\ trs'[t].outcome = "cancelled" => recordingState' = "idle"
          /\ trs'[t].outcome = "failed" => recordingState' = "error"
     /\ (recordingState \in {"recording", "transcribing"}) =>
          (micPending' = micPending /\ recordings' = recordings)]_vars

\* C28: the timer takes away only a toast of kind info or success without an action,
\* and only 3200 ms after it was shown; such a toast, unless it is replaced or closed
\* first, is taken away in the end; a toast of kind error or with an action goes only
\* when it is replaced or closed.
C28_TimerDismissesOnlyPlainToasts ==
  /\ [][(toast # Null /\ toast' = Null /\ toastGone' = "timer") =>
          /\ Dismissible(toast[1])
          /\ toastTimers = { [toast |-> toastSeq, elapsed |-> TOAST_MS] }]_vars
  /\ [][(toast # Null /\ ~Dismissible(toast[1]) /\ toast' # toast) =>
          (toastSeq' = toastSeq + 1 \/ toastGone' = "closed")]_vars
  /\ \A n \in 1..MaxToasts :
       (toastSeq = n /\ toast # Null /\ Dismissible(toast[1]))
         ~> (toastSeq # n \/ toast = Null)

\* C28 witness: the timer has taken an info toast away after an error toast had been
\* shown and replaced
C28_Witness ==
  /\ toast = Null
  /\ toastGone = "timer"
  /\ toastSeq >= 2
  /\ toastTimers = {}

\* C28 witness of the other case: an error toast is up, 3200 ms and more after an
\* earlier toast's timer was armed, and no timer is armed
C28_WitnessErrorStays ==
  /\ toast # Null
  /\ toast[1].kind = "error"
  /\ toastSeq >= 2
  /\ toastTimers = {}

\* the article id is in the list
Listed(list, id) == \E k \in 1..Len(list) : list[k].id = id

\* C30: the article list is never empty and, once mounted, the current article id
\* names an article of the list; with one article left nothing is deleted; when the
\* current article is deleted the first remaining article becomes current and its
\* content is the buffer.
C30_CurrentArticleIsListed ==
  [][/\ articles' # <<>>
     /\ mounted' => Listed(articles', currentArticleId')
     /\ Len(articles) <= 1 => Len(articles') >= Len(articles)
     /\ (Len(articles') < Len(articles) /\ ~Listed(articles', currentArticleId)) =>
          IF articles' = <<>> THEN FALSE
          ELSE /\ currentArticleId' = articles'[1].id
               /\ text' = articles'[1].content]_vars

\* where a session is on its way: not started, waiting for the response, reading the
\* stream, rejected by an abort, returned
Stage(pc) ==
  CASE pc = "unused" -> 0
    [] pc = "requesting" -> 1
    [] pc = "streaming" -> 2
    [] pc = "aborted" -> 3
    [] OTHER -> 4

\* C31: a session only moves forward (not started, requesting, streaming, ended), it
\* ends with exactly one of committed, cancelled or failed, a commit comes only out of
\* streaming, the step that ends it sets the action state to idle, and once it has
\* its outcome it takes no further step and so writes the buffer no more.
C31_SessionMovesForward ==
  [][\A i \in SessionIds :
       LET s == sessions[i]
           n == sessions'[i]
       IN /\ Stage(n.pc) >= Stage(s.pc)
          /\ (s.pc = "unused" /\ n.pc # "unused") => n.pc = "requesting"
          /\ (n.pc = "done") <=> (n.outcome \in {"committed", "cancelled", "failed"})
          /\ n.outcome \in {"none", "committed", "cancelled", "failed"}
          /\ (s.outcome = "none" /\ n.outcome = "committed") => s.pc = "streaming"
          /\ (s.outcome = "none" /\ n.outcome # "none") => actionState' = "idle"
          /\ s.outcome # "none" => n = s]_vars

\* C31 witness: one session has committed and another was cancelled, and the action
\* state is idle
C31_Witness ==
  /\ \E i \in SessionIds : sessions[i].outcome = "committed"
  /\ \E i \in SessionIds : sessions[i].outcome = "cancelled"
  /\ \A i \in SessionIds : sessions[i].pc = "done"
  /\ actionState = "idle"

\* the content deltas of the data events of a body, in order
DeltasOf(body) == ProcessLines(<<>>, SplitLines(body))

\* C32: once the loop has met the line data: [DONE] the session is no longer reading
\* the stream, whether or not the connection is closed, and the accumulated text
\* does not grow after it.
C32_DoneMarkerEndsStreaming ==
  [][sse'.doneSeen =>
       /\ sse'.pc # "reading"
       /\ sse.doneSeen => sse'.accumulatedContent = sse.accumulatedContent]_vars

\* C35: when the stream closes, the accumulated text is the concatenation, in order,
\* of the content deltas of all data events of the body, however the body was split
\* across reads and whether or not its last line ends with a newline (bodies without
\* the end-of-stream marker).
C35_AccumulatesEveryDelta ==
  (sse.pc = "closed" /\ \A k \in 1..Len(sse.body) : sse.body[k] # "E") =>
    sse.accumulatedContent = DeltasOf(sse.body)

\* C33: when a session commits, the selection is collapsed right after the inserted
\* text: at start + len(sanitized) in selection mode, at len(sanitized) in
\* full-document mode.
C33_SelectionFollowsInsertedText ==
  [][\A i \in SessionIds :
       EndStep(i, "committed") =>
         LET s == sessions[i]
             finalContent == sanitizeModelText(s.accumulatedContent)
         IN selection' = Collapsed((IF s.hasSelection THEN s.selStart ELSE 0)
                                     + Len(finalContent))]_vars

\* C34: every attempt starts with a timer of the whole timeoutMs, whatever time the
\* earlier attempts and backoff delays took, and an attempt is marked as timed out
\* only by its own armed timer, timeoutMs after that attempt started.
C34_TimerPerAttempt ==
  [][/\ (call'.pc = "inflight" /\ call'.issued = call.issued + 1) =>
          (call'.timer /\ call'.timerLeft = call'.timeoutMs /\ ~call'.timedOut)
     /\ (call'.timedOut /\ ~call.timedOut) =>
          (call.pc = "inflight" /\ call.timer /\ call.inAttempt = call.timeoutMs)
     /\ call.pc # "inflight" => call'.timedOut = call.timedOut \/ call'.pc = "inflight"]_vars

\* C34 witness: the second attempt times out a whole timeoutMs after it started, the
\* first attempt and the backoff delay having taken more than timeoutMs already
C34_Witness ==
  /\ call.pc = "thrown"
  /\ call.err = "timeout"
  /\ call.retries = 1
  /\ call.issued = 2
  /\ call.inAttempt = call.timeoutMs
  /\ call.spent = 2 * call.timeoutMs + 800

\* C36: when a transcription whose controller the user has aborted ends, it leaves the
\* buffer as it is, and it leaves the recording state as it is if a recording or a
\* transcription started after the cancel has made it recording or transcribing.
C36_CancelledTranscriptionIsInert ==
  [][\A t \in TrIds :
       (trs[t].rq.aborted /\ TrEndStep(t)) =>
         /\ text' = text
         /\ recordingState \in {"recording", "transcribing"} =>
              recordingState' = recordingState]_vars

\* the saved list after this step's render
SavedArticlesNext == SaveArticle(articles', currentArticleId', text')

\* session i wrote the buffer in this step: a chunk update, the commit or the revert
WriteStep(i) == ChunkStep(i) \/ (Active(i) /\ sessions'[i].pc = "done")

\* C37: a chunk update, the commit or the revert of a Fix / Polish session leaves the
\* saved content of every article other than the one it was invoked on as it was,
\* whatever article the user has opened, created or deleted in the meantime.
C37_SessionWritesOnlyItsArticle ==
  [][\A i \in SessionIds :
       WriteStep(i) =>
         \A k \in 1..Len(SavedArticlesNext) :
           SavedArticlesNext[k].id # sessions[i].article =>
             /\ k <= Len(SavedArticles)
             /\ SavedArticlesNext[k] = SavedArticles[k]]_vars

\* the session started last: the one whose snapshot Undo restores
LastStarted == CHOOSE i \in SessionIds :
                 /\ sessions[i].pc # "unused"
                 /\ \A j \in SessionIds : sessions[j].pc # "unused" => j <= i

\* Undo replaced the content of the open article in this step
UndoStep ==
  /\ StartedSessions > 0
  /\ sessions' = sessions
  /\ edits' = edits
  /\ currentArticleId' = currentArticleId
  /\ text' # text
  /\ undoSnapshot' = Null
  /\ undoSnapshotRef' = Null
  /\ toast' = MkToast("info", Null)

\* C38: when Undo replaces the buffer, the article that is open is the article the
\* restored snapshot was taken from.
C38_UndoRestoresOpenArticle ==
  [][UndoStep => currentArticleId = sessions[LastStarted].article]_vars

\* the character c occurs in the string str
Has(str, c) == \E k \in 1..Len(str) : str[k] = c

\* the buffer holds a transcript that session i's snapshot does not hold: it was
\* inserted after the session was invoked
TranscriptSince(i) ==
  \E tr \in Transcripts :
    /\ tr # <<>>
    /\ Has(text, tr[1])
    /\ ~Has(sessions[i].currentSnapshot, tr[1])

\* C39: a transcript inserted into the buffer after a Fix / Polish session was invoked
\* is still in the buffer after every chunk update of the session and after its
\* commit, cancel or failure.
C39_TranscriptSurvivesSession ==
  [][\A i \in SessionIds :
       (WriteStep(i) /\ TranscriptSince(i)) =>
         \A tr \in Transcripts :
           (tr # <<>> /\ Has(text, tr[1])) => Has(text', tr[1])]_vars

\* the text runTextAction of the render c would process: the selected text, or the
\* whole buffer when the selection is empty
TargetText(c) ==
  LET range == clampRange(domSel.start, domSel.end, Len(c.text))
  IN IF range[1] # range[2] THEN Slice(c.text, range[1], range[2]) ELSE c.text

\* empty or whitespace only
IsBlank(str) == \A k \in 1..Len(str) : IsWhiteSpace(str[k])

\* runTextAction of the render c is not the cancel click and has a blank target
BlankTarget(c) == c.actionState # "processing" /\ IsBlank(TargetText(c))

====
